---- MODULE Spec2Model ----
(***************************************************************************)
(* A model of productmd's artifact-location layer (productmd/location.py). *)
(*                                                                         *)
(* Python strings are sequences of one-character strings, so that prefix   *)
(* tests and the two regular expressions are computed character by         *)
(* character.  Python values that may have several types (a field that is  *)
(* None, a str or an int) are tagged records [t |-> type, v |-> value].    *)
(***************************************************************************)
EXTENDS Integers, Sequences, FiniteSets, TLC

VARIABLES
    loc,      \* the Location under test
    data,     \* a parsed document: a serialized Location, or a metadata file
    res,      \* the last call: its name, its argument and its outcome
    fs,       \* the files on disk: path -> content
    call,     \* the file operation in progress, with its arguments
    pc,       \* where the file operation in progress stands
    hasher,   \* the hash object of compute_checksum
    pos,      \* the read position in the open file
    blocks,   \* the lengths of the blocks read so far by compute_checksum
    heap,     \* the FileEntry objects shared by reference: id -> FileEntry
    derived,  \* the Location returned by with_remote_url
    ver   \* a version, as a tuple or as a string

fileVars == <<fs, call, pc, hasher, pos, blocks>>
deriveVars == <<heap, derived>>

vars == <<loc, data, res, fileVars, deriveVars, ver>>

----------------------------------------------------------------------------
(* Bounds of the model.                                                     *)

\* longest contents list the constructor is given
MaxContents == 2

\* longest digest, apart from the digests of an algorithm's own length, of the
\* checksum strings given to the checksum codec
MaxShortDigest == 2

----------------------------------------------------------------------------
(* Python values.                                                           *)

PyNone == [t |-> "NoneType", v |-> 0]
PyStr(s) == [t |-> "str", v |-> s]
PyInt(n) == [t |-> "int", v |-> n]
PyList(l) == [t |-> "list", v |-> l]

\* bool(value), as used by "if not self.url" and "contents or []"
Truthy(x) ==
    CASE x.t = "NoneType" -> FALSE
      [] x.t = "str" -> x.v # <<>>
      [] x.t = "int" -> x.v # 0
      [] x.t = "list" -> x.v # <<>>
      [] OTHER -> TRUE

\* str.startswith(prefix)
StartsWith(s, p) == Len(s) >= Len(p) /\ SubSeq(s, 1, Len(p)) = p

\* "needle in s" for strings
Contains(s, p) == \E i \in 1..(Len(s) - Len(p) + 1) : SubSeq(s, i, i + Len(p) - 1) = p

\* c * n
Rep(c, n) == [i \in 1..n |-> c]

----------------------------------------------------------------------------
(* String literals of the source.                                           *)

HTTPS_PREFIX == <<"h","t","t","p","s",":","/","/">>
HTTP_PREFIX == <<"h","t","t","p",":","/","/">>
OCI_PREFIX == <<"o","c","i",":","/","/">>
AT_SHA256 == <<"@","s","h","a","2","5","6",":">>
SHA256_COLON == <<"s","h","a","2","5","6",":">>
ALGORITHMS == << <<"s","h","a","2","5","6">>, <<"s","h","a","5","1","2">>,
                 <<"s","h","a","1">>, <<"m","d","5">> >>
HEX == {"a","b","c","d","e","f","0","1","2","3","4","5","6","7","8","9"}

\* the {64} of OCI_REFERENCE_RE
OCI_DIGEST_LEN == 64

----------------------------------------------------------------------------
(* Regular expressions, with the semantics of Python's re.match.            *)

\* "$" : at the end of the string, or just before a newline that ends it
AtEnd(s, p) == p = Len(s) + 1 \/ (p = Len(s) /\ s[p] = "\n")

\* last index of the longest run of characters of cls that starts at from
\* (from - 1 when the run is empty): a greedy "[cls]*"
RunEnd(s, from, cls) ==
    LET stops == {i \in from..Len(s) : s[i] \notin cls}
    IN  IF stops = {} THEN Len(s)
        ELSE (CHOOSE i \in stops : \A j \in stops : i <= j) - 1

NoMatch == [matched |-> FALSE]

\* CHECKSUM_RE with "[a-f0-9]*" for the digest
CHECKSUM_RE_EmptyDigest(s) ==
    LET heads == {k \in 1..Len(ALGORITHMS) : StartsWith(s, ALGORITHMS[k] \o <<":">>)}
    IN  IF heads = {} THEN NoMatch
        ELSE LET k == CHOOSE h \in heads : \A g \in heads : h <= g
                 from == Len(ALGORITHMS[k]) + 2
                 to == RunEnd(s, from, HEX)
             IN  IF AtEnd(s, to + 1)
                 THEN [matched |-> TRUE, algorithm |-> ALGORITHMS[k],
                       digest |-> SubSeq(s, from, to)]
                 ELSE NoMatch

\* ^(?P<algorithm>sha256|sha512|sha1|md5):(?P<digest>[a-f0-9]+)$
CHECKSUM_RE(s) ==
    LET heads == {k \in 1..Len(ALGORITHMS) : StartsWith(s, ALGORITHMS[k] \o <<":">>)}
    IN  IF heads = {} THEN NoMatch
        ELSE LET k == CHOOSE h \in heads : \A g \in heads : h <= g
                 from == Len(ALGORITHMS[k]) + 2
                 to == RunEnd(s, from, HEX)
             IN  IF to >= from /\ AtEnd(s, to + 1)
                 THEN [matched |-> TRUE, algorithm |-> ALGORITHMS[k],
                       digest |-> SubSeq(s, from, to)]
                 ELSE NoMatch

\* first index >= from whose character is in cls, 0 when there is none
IndexOf(s, from, cls) ==
    LET hits == {i \in from..Len(s) : s[i] \in cls}
    IN  IF hits = {} THEN 0 ELSE CHOOSE i \in hits : \A j \in hits : i <= j

\* ^oci://(?P<registry>[^/]+)/(?P<repository>[^:@]+)
\*  (:(?P<tag>[^@]+))?(@(?P<digest>sha256:[a-f0-9]{64}))$
OCI_REFERENCE_RE(s) ==
    IF ~StartsWith(s, OCI_PREFIX) THEN NoMatch
    ELSE
    LET r0 == Len(OCI_PREFIX) + 1
        slash == IndexOf(s, r0, {"/"})
        p0 == slash + 1
        stop == IndexOf(s, p0, {":", "@"})
        hasTag == stop > 0 /\ s[stop] = ":"
        at == IF hasTag THEN IndexOf(s, stop + 1, {"@"}) ELSE stop
        d0 == at + 1
        h0 == d0 + Len(SHA256_COLON)
        h1 == h0 + OCI_DIGEST_LEN - 1
    IN  IF /\ slash > r0
           /\ stop > p0
           /\ at > 0
           /\ (hasTag => at > stop + 1)
           /\ Len(s) >= h1
           /\ SubSeq(s, d0, h0 - 1) = SHA256_COLON
           /\ \A i \in h0..h1 : s[i] \in HEX
           /\ AtEnd(s, h1 + 1)
        THEN [matched |-> TRUE,
              registry |-> PyStr(SubSeq(s, r0, slash - 1)),
              repository |-> PyStr(SubSeq(s, p0, stop - 1)),
              tag |-> IF hasTag THEN PyStr(SubSeq(s, stop + 1, at - 1)) ELSE PyNone,
              digest |-> PyStr(SubSeq(s, d0, h1))]
        ELSE NoMatch

----------------------------------------------------------------------------
(* Outcomes of an operation: a returned value or a raised exception.        *)

Ok(v) == [status |-> "ok", value |-> v]
Raise(e) == [status |-> e, value |-> PyNone]

\* parse_checksum(checksum)
parse_checksum(s) ==
    LET m == CHECKSUM_RE(s)
    IN  IF ~m.matched THEN Raise("ValueError")
        ELSE Ok(<<m.algorithm, m.digest>>)

----------------------------------------------------------------------------
(* productmd.common.MetadataBase: the helpers every metadata class inherits. *)

\* statement sequencing: the first check that raises ends the method, and the
\* checks after it are not evaluated
Then(first, rest) == IF first # "ok" THEN first ELSE rest

\* a condition that raises ValueError
RaiseIf(cond) == IF cond THEN "ValueError" ELSE "ok"

\* MetadataBase._assert_type(field, expected_types)
_assert_type(value, types) == IF value.t \in types THEN "ok" ELSE "TypeError"

\* MetadataBase._assert_not_blank(field)
_assert_not_blank(value) == IF Truthy(value) THEN "ok" ELSE "ValueError"

----------------------------------------------------------------------------
(* class FileEntry                                                          *)

FileEntry(file, size, checksum, layer_digest) ==
    [cls |-> "FileEntry", file |-> file, size |-> size,
     checksum |-> checksum, layer_digest |-> layer_digest]

FileEntry_validate_file(e) ==
    Then(_assert_type(e.file, {"str"}),
    Then(_assert_not_blank(e.file),
    RaiseIf(StartsWith(e.file.v, <<"/">>))))

FileEntry_validate_size(e) ==
    Then(_assert_type(e.size, {"int"}),
    RaiseIf(e.size.v < 0))

FileEntry_validate_checksum(e) ==
    Then(_assert_type(e.checksum, {"str"}),
    Then(_assert_not_blank(e.checksum),
    RaiseIf(~CHECKSUM_RE(e.checksum.v).matched)))

FileEntry_validate_layer_digest(e) ==
    Then(_assert_type(e.layer_digest, {"str"}),
    Then(_assert_not_blank(e.layer_digest),
    RaiseIf(~StartsWith(e.layer_digest.v, SHA256_COLON))))

\* MetadataBase.validate() on a FileEntry: the _validate_* methods in name order
FileEntry_validate(e) ==
    Then(FileEntry_validate_checksum(e),
    Then(FileEntry_validate_file(e),
    Then(FileEntry_validate_layer_digest(e),
    FileEntry_validate_size(e))))

\* FileEntry.__eq__
FileEntry_eq(a, b) ==
    /\ b.cls = "FileEntry"
    /\ a.file = b.file
    /\ a.size = b.size
    /\ a.checksum = b.checksum
    /\ a.layer_digest = b.layer_digest

----------------------------------------------------------------------------
(* class Location                                                           *)

\* Location.__init__
Location(url, size, checksum, local_path, contents) ==
    [cls |-> "Location", url |-> url, size |-> size, checksum |-> checksum,
     local_path |-> local_path,
     contents |-> IF Truthy(contents) THEN contents ELSE PyList(<<>>)]

is_https(l) == IF ~Truthy(l.url) THEN FALSE ELSE StartsWith(l.url.v, HTTPS_PREFIX)

is_http(l) == IF ~Truthy(l.url) THEN FALSE ELSE StartsWith(l.url.v, HTTP_PREFIX)

is_oci(l) == IF ~Truthy(l.url) THEN FALSE ELSE StartsWith(l.url.v, OCI_PREFIX)

\* is_remote with "http://" missing from the prefix tuple
is_remote_NoHttp(l) ==
    IF ~Truthy(l.url) THEN FALSE
    ELSE \E p \in {HTTPS_PREFIX, OCI_PREFIX} : StartsWith(l.url.v, p)

is_remote(l) ==
    IF ~Truthy(l.url) THEN FALSE
    ELSE \E p \in {HTTPS_PREFIX, HTTP_PREFIX, OCI_PREFIX} : StartsWith(l.url.v, p)

is_local(l) == ~is_remote(l)

has_contents(l) == Truthy(l.contents)

\* Location.oci_registry / oci_repository / oci_tag / oci_digest
oci_property(l, group) ==
    IF ~is_oci(l) THEN PyNone
    ELSE IF OCI_REFERENCE_RE(l.url.v).matched THEN OCI_REFERENCE_RE(l.url.v)[group]
    ELSE PyNone

oci_registry(l) == oci_property(l, "registry")

oci_repository(l) == oci_property(l, "repository")

oci_tag(l) == oci_property(l, "tag")

oci_digest(l) == oci_property(l, "digest")

\* Location._validate_url without the digest check on OCI urls
Location_validate_url_NoDigestCheck(l) ==
    Then(_assert_type(l.url, {"str"}),
    Then(_assert_not_blank(l.url),
    RaiseIf(StartsWith(l.url.v, <<"/">>))))

Location_validate_url(l) ==
    Then(_assert_type(l.url, {"str"}),
    Then(_assert_not_blank(l.url),
    Then(RaiseIf(StartsWith(l.url.v, <<"/">>)),
    RaiseIf(is_oci(l) /\ ~Contains(l.url.v, AT_SHA256)))))

Location_validate_size(l) ==
    Then(_assert_type(l.size, {"int"}),
    RaiseIf(l.size.v < 0))

Location_validate_checksum(l) ==
    Then(_assert_type(l.checksum, {"str"}),
    Then(_assert_not_blank(l.checksum),
    RaiseIf(~CHECKSUM_RE(l.checksum.v).matched)))

\* Location._validate_local_path without the absolute-path check
Location_validate_local_path_NoAbsCheck(l) ==
    Then(_assert_type(l.local_path, {"str"}),
    _assert_not_blank(l.local_path))

Location_validate_local_path(l) ==
    Then(_assert_type(l.local_path, {"str"}),
    Then(_assert_not_blank(l.local_path),
    RaiseIf(StartsWith(l.local_path.v, <<"/">>))))

\* the first exception raised by a loop whose i-th iteration has outcome checks[i]
FirstError(checks) ==
    LET bad == {i \in 1..Len(checks) : checks[i] # "ok"}
    IN  IF bad = {} THEN "ok"
        ELSE checks[CHOOSE i \in bad : \A j \in bad : i <= j]

\* one iteration of the loop over self.contents: isinstance, then entry.validate()
ValidateEntry(e) == IF e.cls # "FileEntry" THEN "TypeError" ELSE FileEntry_validate(e)

\* Location._validate_contents without the "only with OCI urls" check
Location_validate_contents_AnyUrl(l) ==
    Then(_assert_type(l.contents, {"list"}),
    FirstError([i \in 1..Len(l.contents.v) |-> ValidateEntry(l.contents.v[i])]))

Location_validate_contents(l) ==
    Then(_assert_type(l.contents, {"list"}),
    Then(RaiseIf(Truthy(l.contents) /\ ~is_oci(l)),
    FirstError([i \in 1..Len(l.contents.v) |-> ValidateEntry(l.contents.v[i])])))

\* MetadataBase.validate() on a Location: the _validate_* methods in name order
Location_validate(l) ==
    Then(Location_validate_checksum(l),
    Then(Location_validate_contents(l),
    Then(Location_validate_local_path(l),
    Then(Location_validate_size(l),
    Location_validate_url(l)))))

\* Location.__eq__ without the comparison of contents
Location_eq_NoContents(a, b) ==
    /\ b.cls = "Location"
    /\ a.url = b.url
    /\ a.size = b.size
    /\ a.checksum = b.checksum
    /\ a.local_path = b.local_path

\* Location.__eq__
Location_eq(a, b) ==
    /\ b.cls = "Location"
    /\ a.url = b.url
    /\ a.size = b.size
    /\ a.checksum = b.checksum
    /\ a.local_path = b.local_path
    /\ Len(a.contents.v) = Len(b.contents.v)
    /\ \A i \in 1..Len(a.contents.v) : FileEntry_eq(a.contents.v[i], b.contents.v[i])

\* hash() of a field: the value of a small int, and for a str, whose hash is
\* seeded per process, one function of its characters
hash(x) ==
    CASE x.t = "int" -> x.v
      [] x.t = "str" -> Len(x.v) * 31 + Cardinality({ i \in 1..Len(x.v) : x.v[i] = "/" })
      [] OTHER -> 0

\* hash() of a tuple of four fields
hash_tuple(t) == (((hash(t[1]) * 31 + hash(t[2])) * 31 + hash(t[3])) * 31 + hash(t[4])) % 65521

\* Location.__hash__
Location_hash(l) == hash_tuple(<<l.url, l.size, l.checksum, l.local_path>>)

----------------------------------------------------------------------------
(* Serialization.  A dict is a function from its keys to its values.        *)

EmptyDict == [k \in {} |-> PyNone]

HasKey(d, k) == k \in DOMAIN d

DIGITS == <<"0","1","2","3","4","5","6","7","8","9">>
WHITESPACE == {" ", "\t", "\n", "\r"}

RECURSIVE lstrip(_)
\* s.lstrip()
lstrip(s) == IF s # <<>> /\ s[1] \in WHITESPACE THEN lstrip(Tail(s)) ELSE s

RECURSIVE rstrip_ws(_)
\* s.rstrip()
rstrip_ws(s) ==
    IF s # <<>> /\ s[Len(s)] \in WHITESPACE THEN rstrip_ws(SubSeq(s, 1, Len(s) - 1)) ELSE s

IsDigit(c) == \E n \in 1..10 : DIGITS[n] = c

\* the digits of an int literal: digits, with single underscores between them
IsIntBody(b) ==
    /\ b # <<>>
    /\ IsDigit(b[1]) /\ IsDigit(b[Len(b)])
    /\ \A i \in 1..Len(b) : IsDigit(b[i]) \/ b[i] = "_"
    /\ \A i \in 1..(Len(b) - 1) : ~(b[i] = "_" /\ b[i + 1] = "_")

RECURSIVE IntBodyValue(_, _)
IntBodyValue(b, acc) ==
    IF b = <<>> THEN acc
    ELSE IF b[1] = "_" THEN IntBodyValue(Tail(b), acc)
    ELSE IntBodyValue(Tail(b), 10 * acc + ((CHOOSE n \in 1..10 : DIGITS[n] = b[1]) - 1))

\* int(x)
py_int(x) ==
    CASE x.t = "int" -> Ok(x)
      [] x.t = "str" ->
           LET s == rstrip_ws(lstrip(x.v))
               signed == s # <<>> /\ s[1] \in {"+", "-"}
               b == IF signed THEN Tail(s) ELSE s
           IN  IF IsIntBody(b)
               THEN Ok(PyInt(IF signed /\ s[1] = "-" THEN 0 - IntBodyValue(b, 0)
                             ELSE IntBodyValue(b, 0)))
               ELSE Raise("ValueError")
      [] OTHER -> Raise("TypeError")

\* FileEntry.serialize
FileEntry_serialize(e) ==
    IF FileEntry_validate(e) # "ok" THEN Raise(FileEntry_validate(e))
    ELSE Ok([k \in {"file", "size", "checksum", "layer_digest"} |->
               CASE k = "file" -> e.file
                 [] k = "size" -> e.size
                 [] k = "checksum" -> e.checksum
                 [] k = "layer_digest" -> e.layer_digest])

\* FileEntry.from_dict / FileEntry.deserialize
FileEntry_from_dict(d) ==
    IF ~HasKey(d, "file") \/ ~HasKey(d, "size") THEN Raise("KeyError")
    ELSE IF py_int(d["size"]).status # "ok" THEN Raise(py_int(d["size"]).status)
    ELSE IF ~HasKey(d, "checksum") \/ ~HasKey(d, "layer_digest") THEN Raise("KeyError")
    ELSE LET e == FileEntry(d["file"], py_int(d["size"]).value, d["checksum"], d["layer_digest"])
         IN  IF FileEntry_validate(e) # "ok" THEN Raise(FileEntry_validate(e)) ELSE Ok(e)

\* Location.serialize writing the contents key also for an empty list
Location_serialize_AlwaysContents(l) ==
    IF Location_validate(l) # "ok" THEN Raise(Location_validate(l))
    ELSE Ok([k \in {"url", "size", "checksum", "local_path", "contents"} |->
               CASE k = "url" -> l.url
                 [] k = "size" -> l.size
                 [] k = "checksum" -> l.checksum
                 [] k = "local_path" -> l.local_path
                 [] k = "contents" ->
                      PyList([i \in 1..Len(l.contents.v) |->
                                FileEntry_serialize(l.contents.v[i]).value])])

\* Location.serialize without the call of validate
Location_serialize_Unchecked(l) ==
    LET keys == {"url", "size", "checksum", "local_path"}
                   \cup (IF Truthy(l.contents) THEN {"contents"} ELSE {})
    IN  Ok([k \in keys |->
              CASE k = "url" -> l.url
                [] k = "size" -> l.size
                [] k = "checksum" -> l.checksum
                [] k = "local_path" -> l.local_path
                [] k = "contents" ->
                     PyList([i \in 1..Len(l.contents.v) |->
                               FileEntry_serialize(l.contents.v[i]).value])])

\* Location.serialize
Location_serialize(l) ==
    IF Location_validate(l) # "ok" THEN Raise(Location_validate(l))
    ELSE LET keys == {"url", "size", "checksum", "local_path"}
                       \cup (IF Truthy(l.contents) THEN {"contents"} ELSE {})
         IN  Ok([k \in keys |->
                   CASE k = "url" -> l.url
                     [] k = "size" -> l.size
                     [] k = "checksum" -> l.checksum
                     [] k = "local_path" -> l.local_path
                     [] k = "contents" ->
                          PyList([i \in 1..Len(l.contents.v) |->
                                    FileEntry_serialize(l.contents.v[i]).value])])

\* Location.deserialize appending each parsed entry at the front of contents
Location_from_dict_Prepend(d) ==
    IF ~HasKey(d, "url") \/ ~HasKey(d, "size") THEN Raise("KeyError")
    ELSE IF py_int(d["size"]).status # "ok" THEN Raise(py_int(d["size"]).status)
    ELSE IF ~HasKey(d, "checksum") \/ ~HasKey(d, "local_path") THEN Raise("KeyError")
    ELSE LET items == IF HasKey(d, "contents") THEN d["contents"].v ELSE <<>>
             n == Len(items)
             parsed == [i \in 1..n |-> FileEntry_from_dict(items[i])]
             failed == FirstError([i \in 1..n |-> parsed[i].status])
             l == [cls |-> "Location", url |-> d["url"], size |-> py_int(d["size"]).value,
                   checksum |-> d["checksum"], local_path |-> d["local_path"],
                   contents |-> PyList([i \in 1..n |-> parsed[n + 1 - i].value])]
         IN  IF failed # "ok" THEN Raise(failed)
             ELSE IF Location_validate(l) # "ok" THEN Raise(Location_validate(l))
             ELSE Ok(l)

\* Location.from_dict / Location.deserialize
Location_from_dict(d) ==
    IF ~HasKey(d, "url") \/ ~HasKey(d, "size") THEN Raise("KeyError")
    ELSE IF py_int(d["size"]).status # "ok" THEN Raise(py_int(d["size"]).status)
    ELSE IF ~HasKey(d, "checksum") \/ ~HasKey(d, "local_path") THEN Raise("KeyError")
    ELSE LET items == IF HasKey(d, "contents") THEN d["contents"].v ELSE <<>>
             parsed == [i \in 1..Len(items) |-> FileEntry_from_dict(items[i])]
             failed == FirstError([i \in 1..Len(items) |-> parsed[i].status])
             l == [cls |-> "Location", url |-> d["url"], size |-> py_int(d["size"]).value,
                   checksum |-> d["checksum"], local_path |-> d["local_path"],
                   contents |-> PyList([i \in 1..Len(items) |-> parsed[i].value])]
         IN  IF failed # "ok" THEN Raise(failed)
             ELSE IF Location_validate(l) # "ok" THEN Raise(Location_validate(l))
             ELSE Ok(l)

----------------------------------------------------------------------------
(* Inputs.                                                                  *)

HEX64 == Rep("a", OCI_DIGEST_LEN)
OCI_BASE == OCI_PREFIX \o <<"q","/","r">>

Urls ==
    { PyNone,
      PyStr(<<>>),
      PyStr(<<"p","/","r">>),
      PyStr(<<"/","p">>),
      PyStr(HTTPS_PREFIX \o <<"x">>),
      PyStr(HTTP_PREFIX \o <<"x">>),
      PyStr(OCI_BASE \o <<":","t">> \o AT_SHA256 \o HEX64),
      PyStr(OCI_BASE \o AT_SHA256 \o HEX64),
      PyStr(OCI_BASE \o <<":","t">>),
      PyStr(OCI_BASE \o AT_SHA256 \o <<"a","b">>),
      PyStr(OCI_BASE \o AT_SHA256 \o HEX64 \o <<"x">>),
      PyStr(OCI_BASE \o AT_SHA256 \o HEX64 \o <<"\n">>) }

Sizes == { PyInt(5), PyInt(-1) }

GoodChecksum == PyStr(SHA256_COLON \o HEX64)
NewlineChecksum == PyStr(<<"m","d","5",":","a","b","\n">>)
BadChecksum == PyStr(<<"m","d","5",":","A","B">>)

Checksums == { GoodChecksum, NewlineChecksum, BadChecksum }

LocalPaths == { PyStr(<<"p","/","r">>), PyStr(<<"/","p">>) }

GoodLayer == PyStr(SHA256_COLON \o <<"c">>)

FileEntries ==
    { FileEntry(PyStr(<<"f">>), PyInt(1), PyStr(<<"s","h","a","1",":","a","b">>), GoodLayer),
      FileEntry(PyStr(<<"g">>), PyInt(0), NewlineChecksum, GoodLayer),
      FileEntry(PyStr(<<"/","f">>), PyInt(1), GoodChecksum, GoodLayer),
      FileEntry(PyStr(<<>>), PyInt(1), GoodChecksum, GoodLayer),
      FileEntry(PyStr(<<"f">>), PyInt(-1), GoodChecksum, GoodLayer),
      FileEntry(PyStr(<<"f">>), PyInt(1), BadChecksum, GoodLayer),
      FileEntry(PyStr(<<"f">>), PyInt(1), GoodChecksum, PyStr(<<"m","d","5",":","c">>)),
      [cls |-> "dict", file |-> PyStr(<<"f">>), size |-> PyInt(1),
       checksum |-> GoodChecksum, layer_digest |-> GoodLayer] }

SeqsUpTo(S, n) == UNION {[1..k -> S] : k \in 0..n}

ContentsArgs == {PyNone} \cup {PyList(c) : c \in SeqsUpTo(FileEntries, MaxContents)}

----------------------------------------------------------------------------
(* Operations on one Location and on the document it is written to.         *)

Result(op, arg, out) == [op |-> op, arg |-> arg, out |-> out]

NoCall ==
    [op |-> "none", path |-> <<>>, arg |-> PyNone, todo |-> <<>>, file |-> <<>>, size |-> PyNone]

\* no file operation has been called
FileIdle ==
    /\ fs = EmptyDict
    /\ call = NoCall
    /\ pc = "idle"
    /\ hasher = PyNone
    /\ pos = 0
    /\ blocks = <<>>

\* with_remote_url has not been called
DeriveIdle ==
    /\ heap = <<>>
    /\ derived = PyNone

\* the state after loc = Location(url, size, checksum, local_path, contents)
Init ==
    /\ \E u \in Urls, z \in Sizes, c \in Checksums, p \in LocalPaths, cs \in ContentsArgs :
          loc = Location(u, z, c, p, cs)
    /\ data = EmptyDict
    /\ res = Result("init", PyNone, Ok(PyNone))
    /\ FileIdle /\ DeriveIdle /\ ver = PyNone

\* loc.validate()
Validate ==
    /\ res' = Result("validate", PyNone,
                     IF Location_validate(loc) = "ok" THEN Ok(PyNone)
                     ELSE Raise(Location_validate(loc)))
    /\ UNCHANGED <<loc, data, fileVars, deriveVars, ver>>

\* data = loc.serialize()
Serialize ==
    /\ res' = Result("serialize", PyNone, Location_serialize(loc))
    /\ data' = IF Location_serialize(loc).status = "ok"
               THEN Location_serialize(loc).value ELSE data
    /\ UNCHANGED <<loc, fileVars, deriveVars, ver>>

\* the stored document is changed outside the library: a key is dropped, or
\* the size is written as a decimal string
EditData ==
    /\ res.op = "serialize" /\ res.out.status = "ok"
    /\ \/ \E k \in DOMAIN data : data' = [j \in DOMAIN data \ {k} |-> data[j]]
       \/ data' = [data EXCEPT !["size"] = PyStr(<<"5">>)]
    /\ res' = Result("edit", PyNone, Ok(PyNone))
    /\ UNCHANGED <<loc, fileVars, deriveVars, ver>>

\* Location.from_dict(data)
FromDict ==
    /\ data # EmptyDict
    /\ res' = Result("from_dict", PyNone, Location_from_dict(data))
    /\ UNCHANGED <<loc, data, fileVars, deriveVars, ver>>

\* the classification properties of loc, read together
Classify ==
    /\ res' = Result("classify", PyNone,
                     Ok([is_remote |-> is_remote(loc), is_https |-> is_https(loc),
                         is_http |-> is_http(loc), is_oci |-> is_oci(loc),
                         is_local |-> is_local(loc)]))
    /\ UNCHANGED <<loc, data, fileVars, deriveVars, ver>>

\* the four OCI properties of loc, read together
OciProperties ==
    /\ res' = Result("oci", PyNone,
                     Ok([registry |-> oci_registry(loc), repository |-> oci_repository(loc),
                         tag |-> oci_tag(loc), digest |-> oci_digest(loc)]))
    /\ UNCHANGED <<loc, data, fileVars, deriveVars, ver>>

Next ==
    \/ Validate
    \/ Serialize
    \/ EditData
    \/ FromDict
    \/ Classify
    \/ OciProperties

Spec == Init /\ [][Next]_vars

----------------------------------------------------------------------------
(* The checksum codec: parse_checksum and the checksum checks of validate() *)
(* on checksum strings of every shape.                                      *)

DigestLens == (0..MaxShortDigest) \cup {32, 40, 64, 128}

Digests ==
    {Rep("a", n) : n \in DigestLens}
        \cup {Rep("a", n) \o <<"F">> : n \in 0..MaxShortDigest}
        \cup {<<"0">> \o Rep("9", n) \o <<"g">> : n \in 0..MaxShortDigest}

ChecksumStrings ==
    { lead \o algo \o sep \o digest \o trail :
        lead \in {<<>>, <<" ">>},
        algo \in {ALGORITHMS[k] : k \in 1..Len(ALGORITHMS)}
                    \cup {<<>>, <<"s","h","a","9">>, <<"S","H","A","1">>},
        sep \in {<<":">>, <<>>, <<":",":">>},
        digest \in Digests,
        trail \in {<<>>, <<"\n">>, <<" ">>, <<"\n","\n">>} }

\* a Location and a FileEntry that both carry the checksum string s
InitChecksum ==
    /\ \E s \in ChecksumStrings :
          loc = Location(PyStr(OCI_BASE \o AT_SHA256 \o HEX64), PyInt(5), PyStr(s),
                         PyStr(<<"p","/","r">>),
                         PyList(<<FileEntry(PyStr(<<"f">>), PyInt(1), PyStr(s), GoodLayer)>>))
    /\ data = EmptyDict
    /\ res = Result("init", PyNone, Ok(PyNone))
    /\ FileIdle /\ DeriveIdle /\ ver = PyNone

\* parse_checksum(loc.checksum), as loc.checksum_algorithm and
\* loc.checksum_value call it
ParseChecksum ==
    /\ Truthy(loc.checksum)
    /\ res' = Result("parse_checksum", loc.checksum, parse_checksum(loc.checksum.v))
    /\ UNCHANGED <<loc, data, fileVars, deriveVars, ver>>

NextChecksum ==
    \/ ParseChecksum
    \/ Validate

SpecChecksum == InitChecksum /\ [][NextChecksum]_vars

----------------------------------------------------------------------------
(* Files.  The content of a file is a sequence of runs <<byte, count>>,      *)
(* count > 0 and no two neighbouring runs of the same byte, so that a file  *)
(* of several blocks of 1 MiB is a short sequence.                          *)

\* most whole blocks of 1 MiB in a file on disk
MaxBlocks == 2

\* the 1024 * 1024 of f.read() in compute_checksum
BLOCK_SIZE == 1024 * 1024

Min(a, b) == IF a <= b THEN a ELSE b

RECURSIVE RunsLen(_)
\* len() of a bytes value
RunsLen(c) == IF c = <<>> THEN 0 ELSE c[1][2] + RunsLen(Tail(c))

\* a + b of two bytes values
RunsConcat(a, b) ==
    IF a = <<>> THEN b
    ELSE IF b = <<>> THEN a
    ELSE IF a[Len(a)][1] = b[1][1]
         THEN SubSeq(a, 1, Len(a) - 1)
              \o << <<b[1][1], a[Len(a)][2] + b[1][2]>> >> \o Tail(b)
         ELSE a \o b

RECURSIVE RunsSlice(_, _, _)
\* the n bytes of c from offset from on, or as many as there are
RunsSlice(c, from, n) ==
    IF c = <<>> \/ n = 0 THEN <<>>
    ELSE IF from >= c[1][2] THEN RunsSlice(Tail(c), from - c[1][2], n)
    ELSE LET take == Min(c[1][2] - from, n)
         IN  RunsConcat(<< <<c[1][1], take>> >>, RunsSlice(Tail(c), 0, n - take))

\* f.read(n) at position p of a file of content c
read(c, p, n) == RunsSlice(c, p, n)

\* os.path.join(a, b)
os_path_join(a, b) ==
    IF StartsWith(b, <<"/">>) THEN b
    ELSE IF a = <<>> \/ a[Len(a)] = "/" THEN a \o b
    ELSE a \o <<"/">> \o b

\* os.path.getsize(path)
os_path_getsize(files, path) ==
    IF path \in DOMAIN files THEN Ok(PyInt(RunsLen(files[path]))) ELSE Raise("OSError")

(* hashlib.  A digest is a function of the bytes fed to the hash object, in *)
(* the order they were fed, and has the length of the algorithm's digest;   *)
(* the function stands for the algorithm's own.                             *)

SHA224 == <<"s","h","a","2","2","4">>
SHA384 == <<"s","h","a","3","8","4">>
SHA256_UPPER == <<"S","H","A","2","5","6">>
CHECKSUM_ALGO == ALGORITHMS[1]

\* the names hashlib.new accepts, among those given to it here
HashlibNames == { ALGORITHMS[i] : i \in 1..Len(ALGORITHMS) } \cup { SHA224, SHA384, SHA256_UPPER }

\* hashlib.new(name).digest_size, in hexadecimal digits
hexdigest_len(name) ==
    CASE name = ALGORITHMS[1] \/ name = SHA256_UPPER -> 64
      [] name = ALGORITHMS[2] -> 128
      [] name = ALGORITHMS[3] -> 40
      [] name = ALGORITHMS[4] -> 32
      [] name = SHA224 -> 56
      [] name = SHA384 -> 96

\* hashlib.new(algorithm)
hashlib_new(algorithm) ==
    IF algorithm.t # "str" THEN Raise("TypeError")
    ELSE IF algorithm.v \in HashlibNames THEN Ok([name |-> algorithm.v, fed |-> <<>>])
    ELSE Raise("ValueError")

\* hasher.update(chunk), feeding the chunk before what was fed already
hasher_update_Prepend(h, chunk) == [h EXCEPT !.fed = RunsConcat(chunk, h.fed)]

\* hasher.update(chunk)
hasher_update(h, chunk) == [h EXCEPT !.fed = RunsConcat(h.fed, chunk)]

HexDigits == <<"0","1","2","3","4","5","6","7","8","9","a","b","c","d","e","f">>

RECURSIVE Mix(_, _)
Mix(n, c) ==
    IF c = <<>> THEN n
    ELSE Mix((n * 31 + (IF c[1][1] = "x" THEN 17 ELSE 34) + c[1][2]) % 65521, Tail(c))

\* hasher.hexdigest().lower()
hexdigest(h) ==
    LET n == 1 + Mix(Len(h.name), h.fed)
    IN  << HexDigits[1 + ((n \div 4096) % 16)], HexDigits[1 + ((n \div 256) % 16)],
           HexDigits[1 + ((n \div 16) % 16)], HexDigits[1 + (n % 16)] >>
        \o Rep("0", hexdigest_len(h.name) - 4)

----------------------------------------------------------------------------
(* File operations: compute_checksum, Location.verify and                   *)
(* Location.from_local_file, one step per statement that touches the file.  *)

PyTrue == [t |-> "bool", v |-> TRUE]
PyBool(b) == [t |-> "bool", v |-> b]
Pending == [status |-> "pending", value |-> PyNone]
\* an exception raised with a message
RaiseMsg(e, msg) == [status |-> e, value |-> [t |-> "message", v |-> msg]]

\* Location.checksum_algorithm
checksum_algorithm(l) ==
    IF ~Truthy(l.checksum) THEN Ok(PyNone)
    ELSE IF parse_checksum(l.checksum.v).status = "ok"
         THEN Ok(PyStr(parse_checksum(l.checksum.v).value[1]))
         ELSE parse_checksum(l.checksum.v)

\* compute_checksum, up to the opening of the file
compute_checksum_open(files, file, algorithm) ==
    IF hashlib_new(algorithm).status # "ok" THEN hashlib_new(algorithm)
    ELSE IF file \notin DOMAIN files THEN Raise("OSError")
    ELSE hashlib_new(algorithm)

\* compute_checksum's return value
compute_checksum_return(h) == PyStr(h.name \o <<":">> \o hexdigest(h))

\* Location.verify_size(path)
verify_size(l, files, path) ==
    IF os_path_getsize(files, path).status # "ok" THEN os_path_getsize(files, path)
    ELSE IF os_path_getsize(files, path).value # l.size
         THEN RaiseMsg("ValueError", "Size mismatch")
         ELSE Ok(PyTrue)

\* the end of Location.verify_checksum(path), once the checksum is computed
verify_checksum_compare(l, actual) ==
    IF actual # l.checksum THEN RaiseMsg("ValueError", "Checksum mismatch") ELSE Ok(PyTrue)

\* the body of Location.verify, with the checksum verified first
verify_steps_ChecksumFirst == <<"verify_checksum", "verify_size">>

\* the body of Location.verify
verify_steps == <<"verify_size", "verify_checksum">>

\* from_local_file's integrity when compute_integrity is false
from_local_file_placeholder ==
    [size |-> PyInt(0), checksum |-> PyStr(SHA256_COLON \o Rep("0", 64))]

\* the file from_local_file reads: the path itself
from_local_file_full_path_NoBaseDir(base_dir, path) == path

\* the file from_local_file reads
from_local_file_full_path(base_dir, path) == os_path_join(base_dir, path)

Call(op, path, arg, todo) ==
    [op |-> op, path |-> path, arg |-> arg, todo |-> todo, file |-> path, size |-> PyNone]

\* the call c returns or raises
Return(c, out) ==
    /\ call' = c
    /\ res' = Result(c.op, PyStr(c.path), out)
    /\ pc' = "idle"

\* the call c goes on
Continue(c, at) ==
    /\ call' = c
    /\ res' = Result(c.op, PyStr(c.path), Pending)
    /\ pc' = at

\* the call c enters compute_checksum(file, algorithm)
EnterComputeChecksum(c, file, algorithm) ==
    /\ pos' = 0
    /\ blocks' = <<>>
    /\ IF compute_checksum_open(fs, file, algorithm).status = "ok"
       THEN /\ hasher' = compute_checksum_open(fs, file, algorithm).value
            /\ Continue([c EXCEPT !.file = file], "read")
       ELSE /\ hasher' = PyNone
            /\ Return([c EXCEPT !.file = file], compute_checksum_open(fs, file, algorithm))

\* the statements of Location.verify that remain after one has passed
VerifyNext ==
    IF Tail(call.todo) = <<>>
    THEN Return([call EXCEPT !.todo = <<>>], Ok(PyTrue))
    ELSE Continue([call EXCEPT !.todo = Tail(call.todo)], "verify")

\* the files of the model, their sizes around the block boundaries
Content(n) ==
    IF n = 0 THEN <<>>
    ELSE IF n = 1 THEN << <<"x", 1>> >>
    ELSE << <<"x", 1>>, <<"y", n - 1>> >>

\* a file of the size of Content(n) and of another content
OtherContent(n) ==
    IF n = 1 THEN << <<"y", 1>> >> ELSE << <<"y", 1>>, <<"x", n - 1>> >>

FileSizes == {0, 1} \cup { k * BLOCK_SIZE + d : k \in 1..MaxBlocks, d \in {0, 1} }
FileContents == { Content(n) : n \in FileSizes } \cup { OtherContent(1), OtherContent(BLOCK_SIZE + 1) }

PathP == <<"p">>
PathBP == <<"b","/","p">>
Paths == { PathP, PathBP }
BaseDirs == { <<"b">>, <<"b","/">>, <<"c">> }

FileSystems ==
    { [q \in dom |-> IF q = PathP THEN OtherContent(1) ELSE c] :
        dom \in { {}, {PathP}, {PathBP}, {PathP, PathBP} }, c \in FileContents }

\* the whole-file checksum of a content, as recorded in metadata
ChecksumOf(name, c) == compute_checksum_return([name |-> name, fed |-> c])

\* a Location recorded for a file of content c
Describes(c, name) ==
    Location(PyStr(PathP), PyInt(RunsLen(c)), ChecksumOf(name, c), PyStr(PathP), PyNone)

FileLocations ==
    { Describes(c, CHECKSUM_ALGO) : c \in FileContents }
    \cup { Describes(Content(1), ALGORITHMS[4]) }
    \cup { [Describes(c, CHECKSUM_ALGO) EXCEPT !.size = PyInt(RunsLen(c) + 1)] :
             c \in { Content(0), Content(BLOCK_SIZE + 1) } }
    \cup { [Describes(Content(1), CHECKSUM_ALGO) EXCEPT !.checksum = k] : k \in { BadChecksum, PyNone } }

CRC32 == <<"c","r","c","3","2">>
AlgorithmArgs ==
    { PyStr(ALGORITHMS[i]) : i \in 1..Len(ALGORITHMS) }
    \cup { PyStr(SHA384), PyStr(SHA256_UPPER), PyStr(CRC32), PyNone }

InitFile ==
    /\ loc \in FileLocations
    /\ fs \in FileSystems
    /\ data = EmptyDict
    /\ res = Result("init", PyNone, Ok(PyNone))
    /\ call = NoCall /\ pc = "idle" /\ hasher = PyNone /\ pos = 0 /\ blocks = <<>>
    /\ DeriveIdle /\ ver = PyNone

\* compute_checksum(path, algorithm) is called
CallComputeChecksum ==
    /\ pc = "idle"
    /\ \E path \in Paths, algorithm \in AlgorithmArgs :
          EnterComputeChecksum(Call("compute_checksum", path, algorithm, <<>>), path, algorithm)
    /\ UNCHANGED <<loc, data, fs, deriveVars, ver>>

\* compute_checksum reads a block and feeds it to the hash
ReadBlock ==
    /\ pc = "read"
    /\ read(fs[call.file], pos, BLOCK_SIZE) # <<>>
    /\ hasher' = hasher_update(hasher, read(fs[call.file], pos, BLOCK_SIZE))
    /\ pos' = pos + RunsLen(read(fs[call.file], pos, BLOCK_SIZE))
    /\ blocks' = Append(blocks, RunsLen(read(fs[call.file], pos, BLOCK_SIZE)))
    /\ UNCHANGED <<loc, data, res, fs, call, pc, deriveVars, ver>>

\* compute_checksum reads nothing more and returns to its caller, which
\* goes on to its next file access or to its end
ReadEof ==
    /\ pc = "read"
    /\ read(fs[call.file], pos, BLOCK_SIZE) = <<>>
    /\ CASE call.op = "compute_checksum" ->
              /\ Return(call, Ok(compute_checksum_return(hasher)))
              /\ UNCHANGED loc
         [] call.op = "verify" ->
              /\ IF verify_checksum_compare(loc, compute_checksum_return(hasher)).status = "ok"
                 THEN VerifyNext
                 ELSE Return(call, verify_checksum_compare(loc, compute_checksum_return(hasher)))
              /\ UNCHANGED loc
         [] call.op = "from_local_file" ->
              /\ loc' = [Location(PyNone, PyNone, PyNone, PyNone, PyNone) EXCEPT
                           !.url = PyStr(call.path), !.local_path = PyStr(call.path),
                           !.size = call.size, !.checksum = compute_checksum_return(hasher)]
              /\ Return(call, Ok(loc'))
    /\ UNCHANGED <<data, fs, hasher, pos, blocks, deriveVars, ver>>

\* loc.verify(path) is called
CallVerify ==
    /\ pc = "idle"
    /\ \E path \in Paths : Continue(Call("verify", path, PyNone, verify_steps), "verify")
    /\ hasher' = PyNone /\ pos' = 0 /\ blocks' = <<>>
    /\ UNCHANGED <<loc, data, fs, deriveVars, ver>>

\* self.verify_size(path)
VerifySize ==
    /\ pc = "verify"
    /\ Head(call.todo) = "verify_size"
    /\ IF verify_size(loc, fs, call.path).status = "ok"
       THEN VerifyNext
       ELSE Return(call, verify_size(loc, fs, call.path))
    /\ UNCHANGED <<loc, data, fs, hasher, pos, blocks, deriveVars, ver>>

\* self.verify_checksum(path), up to the opening of the file
VerifyChecksum ==
    /\ pc = "verify"
    /\ Head(call.todo) = "verify_checksum"
    /\ IF checksum_algorithm(loc).status = "ok"
       THEN EnterComputeChecksum(call, call.path, checksum_algorithm(loc).value)
       ELSE /\ Return(call, checksum_algorithm(loc))
            /\ UNCHANGED <<hasher, pos, blocks>>
    /\ UNCHANGED <<loc, data, fs, deriveVars, ver>>

\* loc = Location.from_local_file(path, base_dir, compute_integrity), up to
\* the opening of the file or, with no file to read, to the end
CallFromLocalFile ==
    /\ pc = "idle"
    /\ \E path \in Paths, base_dir \in BaseDirs, compute_integrity \in BOOLEAN :
          LET c == Call("from_local_file", path,
                        [base_dir |-> base_dir, compute_integrity |-> compute_integrity], <<>>)
              full_path == from_local_file_full_path(base_dir, path)
              size == os_path_getsize(fs, full_path)
              new == [Location(PyNone, PyNone, PyNone, PyNone, PyNone) EXCEPT
                        !.url = PyStr(path), !.local_path = PyStr(path),
                        !.size = from_local_file_placeholder.size,
                        !.checksum = from_local_file_placeholder.checksum]
          IN  IF compute_integrity
              THEN /\ IF size.status = "ok"
                      THEN EnterComputeChecksum([c EXCEPT !.size = size.value], full_path,
                                                PyStr(CHECKSUM_ALGO))
                      ELSE /\ Return([c EXCEPT !.file = full_path], size)
                           /\ hasher' = PyNone /\ pos' = 0 /\ blocks' = <<>>
                   /\ UNCHANGED loc
              ELSE /\ loc' = new
                   /\ Return(c, Ok(new))
                   /\ hasher' = PyNone /\ pos' = 0 /\ blocks' = <<>>
    /\ UNCHANGED <<data, fs, deriveVars, ver>>

NextFile ==
    \/ CallComputeChecksum
    \/ ReadBlock
    \/ ReadEof
    \/ CallVerify
    \/ VerifySize
    \/ VerifyChecksum
    \/ CallFromLocalFile

SpecFile == InitFile /\ [][NextFile]_vars

\* a call in progress is not abandoned: the interpreter runs the statements
\* of compute_checksum and of verify one after another
SpecFileFair ==
    SpecFile /\ WF_vars(ReadBlock) /\ WF_vars(ReadEof) /\ WF_vars(VerifySize) /\ WF_vars(VerifyChecksum)

----------------------------------------------------------------------------
(* Location.with_remote_url and the objects it shares.  Here the contents   *)
(* of a Location is a reference to a list object of the heap, and the items *)
(* of a list are references to FileEntry objects of the heap, so that two   *)
(* Locations can hold the same list or the same FileEntry.                  *)

\* most objects on the heap
MaxObjects == 5

Ref(id) == [t |-> "ref", v |-> id]
ListObject(items) == [cls |-> "list", items |-> items]

\* the references held by the contents of a Location
Items(l, h) == h[l.contents.v].items

RECURSIVE rstrip(_, _)
\* s.rstrip(c)
rstrip(s, c) ==
    IF s # <<>> /\ s[Len(s)] = c THEN rstrip(SubSeq(s, 1, Len(s) - 1), c) ELSE s

\* a field of type str or None inside an f-string
py_format(x) == IF x.t = "str" THEN x.v ELSE <<"N","o","n","e">>

\* new_url of with_remote_url, without base_url.rstrip("/")
with_remote_url_new_url_NoStrip(l, base_url) == base_url \o <<"/">> \o py_format(l.local_path)

\* new_url of with_remote_url
with_remote_url_new_url(l, base_url) == rstrip(base_url, "/") \o <<"/">> \o py_format(l.local_path)

\* the list the new Location holds: self.contents.copy() if self.contents
\* else None, and then contents or []
with_remote_url_contents(l, h) ==
    IF Items(l, h) # <<>> THEN ListObject(Items(l, h)) ELSE ListObject(<<>>)

EntryF == FileEntry(PyStr(<<"f">>), PyInt(1), GoodChecksum, GoodLayer)
EntryG == FileEntry(PyStr(<<"g">>), PyInt(2), GoodChecksum, GoodLayer)
EntryH == FileEntry(PyStr(<<"h">>), PyInt(3), GoodChecksum, GoodLayer)

BaseUrls ==
    { PyStr(HTTPS_PREFIX \o <<"x">>), PyStr(HTTPS_PREFIX \o <<"x","/">>),
      PyStr(HTTPS_PREFIX \o <<"x","/","/">>), PyStr(<<>>), PyNone }

InitDerive ==
    /\ \E n \in 0..2, local_path \in { PyStr(<<"p">>), PyNone } :
          /\ heap = <<ListObject([i \in 1..n |-> i + 1]), EntryF, EntryG>>
          /\ loc = [Location(PyStr(OCI_BASE \o AT_SHA256 \o HEX64), PyInt(5), GoodChecksum,
                               local_path, PyNone)
                      EXCEPT !.contents = Ref(1)]
    /\ derived = PyNone
    /\ data = EmptyDict
    /\ res = Result("init", PyNone, Ok(PyNone))
    /\ FileIdle /\ ver = PyNone

\* derived = loc.with_remote_url(base_url)
WithRemoteUrl ==
    /\ derived = PyNone
    /\ \E base_url \in BaseUrls :
          IF base_url.t # "str"
          THEN /\ res' = Result("with_remote_url", base_url, Raise("AttributeError"))
               /\ UNCHANGED <<heap, derived>>
          ELSE /\ heap' = Append(heap, with_remote_url_contents(loc, heap))
               /\ derived' = [Location(PyStr(with_remote_url_new_url(loc, base_url.v)),
                                       loc.size, loc.checksum, loc.local_path, PyNone)
                                EXCEPT !.contents = Ref(Len(heap) + 1)]
               /\ res' = Result("with_remote_url", base_url, Ok(derived'))
    /\ UNCHANGED <<loc, data, fileVars, ver>>

Targets == IF derived = PyNone THEN {"loc"} ELSE {"loc", "derived"}
Target(t) == IF t = "loc" THEN loc ELSE derived
Mutated(op, t) == Result(op, PyStr(t), Ok(PyNone))

\* target.contents.append(FileEntry(...))
AppendEntry ==
    /\ Len(heap) + (IF derived = PyNone THEN 1 ELSE 0) < MaxObjects
    /\ \E t \in Targets :
          /\ heap' = [Append(heap, EntryH) EXCEPT
                        ![Target(t).contents.v].items = Append(@, Len(heap) + 1)]
          /\ res' = Mutated("append", t)
    /\ UNCHANGED <<loc, derived, data, fileVars, ver>>

\* del target.contents[i]
RemoveEntry ==
    /\ \E t \in Targets : \E i \in 1..Len(Items(Target(t), heap)) :
          /\ heap' = [heap EXCEPT ![Target(t).contents.v].items =
                        SubSeq(@, 1, i - 1) \o SubSeq(@, i + 1, Len(@))]
          /\ res' = Mutated("remove", t)
    /\ UNCHANGED <<loc, derived, data, fileVars, ver>>

\* target.contents[i].size = 9
SetField ==
    /\ \E t \in Targets : \E i \in 1..Len(Items(Target(t), heap)) :
          /\ heap[Items(Target(t), heap)[i]].size # PyInt(9)
          /\ heap' = [heap EXCEPT ![Items(Target(t), heap)[i]].size = PyInt(9)]
          /\ res' = Mutated("set", t)
    /\ UNCHANGED <<loc, derived, data, fileVars, ver>>

NextDerive ==
    \/ WithRemoteUrl
    \/ AppendEntry
    \/ RemoveEntry
    \/ SetField

SpecDerive == InitDerive /\ [][NextDerive]_vars

----------------------------------------------------------------------------
(* productmd/version.py: version tuples and version strings.                *)

\* largest major or minor number of a version tuple
MaxVersion == 11

\* longest version string built from VersionChars
MaxVersionLen == 4

PyTuple(s) == [t |-> "tuple", v |-> s]

VERSION_1_0 == <<1, 0>>
VERSION_1_1 == <<1, 1>>
VERSION_1_2 == <<1, 2>>
VERSION_2_0 == <<2, 0>>
CURRENT_VERSION == VERSION_1_2
MIN_LOCATION_VERSION == VERSION_2_0

RECURSIVE format_int(_)
\* an int inside an f-string
format_int(n) ==
    IF n < 0 THEN <<"-">> \o format_int(0 - n)
    ELSE IF n < 10 THEN <<DIGITS[n + 1]>>
    ELSE format_int(n \div 10) \o <<DIGITS[(n % 10) + 1]>>

\* version_to_string(version)
version_to_string(version) == format_int(version[1]) \o <<".">> \o format_int(version[2])

RECURSIVE split(_, _)
\* s.split(sep), for a separator of one character
split(s, sep) ==
    IF \A i \in 1..Len(s) : s[i] # sep THEN <<s>>
    ELSE LET i == CHOOSE i \in 1..Len(s) : s[i] = sep /\ \A j \in 1..(i - 1) : s[j] # sep
         IN  <<SubSeq(s, 1, i - 1)>> \o split(SubSeq(s, i + 1, Len(s)), sep)

\* the body of the try statement of string_to_version
string_to_version_try(version_str) ==
    IF version_str.t # "str" THEN Raise("AttributeError")
    ELSE IF py_int(PyStr(split(version_str.v, ".")[1])).status # "ok"
         THEN py_int(PyStr(split(version_str.v, ".")[1]))
    ELSE IF Len(split(version_str.v, ".")) < 2 THEN Raise("IndexError")
    ELSE IF py_int(PyStr(split(version_str.v, ".")[2])).status # "ok"
         THEN py_int(PyStr(split(version_str.v, ".")[2]))
    ELSE Ok(PyTuple(<<py_int(PyStr(split(version_str.v, ".")[1])).value.v,
                      py_int(PyStr(split(version_str.v, ".")[2])).value.v>>))

\* string_to_version without its except clause
string_to_version_Uncaught(version_str) == string_to_version_try(version_str)

\* string_to_version(version_str)
string_to_version(version_str) ==
    IF string_to_version_try(version_str).status \in {"ValueError", "IndexError"}
    THEN Raise("ValueError")
    ELSE string_to_version_try(version_str)

\* get_version_tuple(version)
get_version_tuple(version) ==
    IF version.t = "str" THEN string_to_version(version)
    ELSE IF version.t \in {"tuple", "list"} THEN Ok(PyTuple(version.v))
    ELSE Raise("TypeError")

\* a >= b of two tuples of two ints
tuple_ge(a, b) == a[1] > b[1] \/ (a[1] = b[1] /\ a[2] >= b[2])

\* is_v1(version)
is_v1(version) ==
    IF get_version_tuple(version).status # "ok" THEN get_version_tuple(version)
    ELSE Ok(PyBool(get_version_tuple(version).value.v[1] = 1))

\* is_v2(version)
is_v2(version) ==
    IF get_version_tuple(version).status # "ok" THEN get_version_tuple(version)
    ELSE Ok(PyBool(get_version_tuple(version).value.v[1] >= 2))

\* is_distributed(version)
is_distributed(version) == is_v2(version)

\* supports_location_objects with a threshold above MIN_LOCATION_VERSION
supports_location_objects_Above(version) ==
    IF get_version_tuple(version).status # "ok" THEN get_version_tuple(version)
    ELSE Ok(PyBool(~tuple_ge(MIN_LOCATION_VERSION, get_version_tuple(version).value.v)))

\* supports_location_objects(version)
supports_location_objects(version) ==
    IF get_version_tuple(version).status # "ok" THEN get_version_tuple(version)
    ELSE Ok(PyBool(tuple_ge(get_version_tuple(version).value.v, MIN_LOCATION_VERSION)))

VersionTuples == { PyTuple(<<major, minor>>) : major, minor \in 0..MaxVersion }

VersionChars == {"0", "1", "2", ".", "x", " ", "-", "_"}

VersionStrings ==
    { PyStr(s) : s \in SeqsUpTo(VersionChars, MaxVersionLen) }
    \cup { PyStr(version_to_string(t.v)) : t \in VersionTuples }
    \cup { PyStr(<<"1",".","2",".","3">>), PyStr(<<"1",".","x",".","3">>),
           PyStr(<<"+","1",".","2","\n">>) }

InitVersion ==
    /\ \/ ver \in VersionTuples
       \/ ver \in VersionStrings
    /\ data = EmptyDict
    /\ loc = Location(PyNone, PyNone, PyNone, PyNone, PyNone)
    /\ res = Result("init", PyNone, Ok(PyNone))
    /\ FileIdle /\ DeriveIdle

\* version_to_string(version)
VersionToString ==
    /\ ver.t = "tuple"
    /\ res' = Result("version_to_string", ver, Ok(PyStr(version_to_string(ver.v))))
    /\ UNCHANGED <<loc, data, fileVars, deriveVars, ver>>

\* string_to_version(version)
StringToVersion ==
    /\ ver.t = "str"
    /\ res' = Result("string_to_version", ver, string_to_version(ver))
    /\ UNCHANGED <<loc, data, fileVars, deriveVars, ver>>

\* string_to_version(version_to_string(version))
RoundTrip ==
    /\ ver.t = "tuple"
    /\ res' = Result("round_trip", ver, string_to_version(PyStr(version_to_string(ver.v))))
    /\ UNCHANGED <<loc, data, fileVars, deriveVars, ver>>

\* is_v1, is_v2, is_distributed and supports_location_objects of version
VersionPredicates ==
    /\ res' = Result("predicates", ver,
                     IF get_version_tuple(ver).status # "ok" THEN get_version_tuple(ver)
                     ELSE Ok([is_v1 |-> is_v1(ver).value.v,
                              is_v2 |-> is_v2(ver).value.v,
                              is_distributed |-> is_distributed(ver).value.v,
                              supports_location_objects |-> supports_location_objects(ver).value.v]))
    /\ UNCHANGED <<loc, data, fileVars, deriveVars, ver>>

NextVersion ==
    \/ VersionToString
    \/ StringToVersion
    \/ RoundTrip
    \/ VersionPredicates

SpecVersion == InitVersion /\ [][NextVersion]_vars

----------------------------------------------------------------------------
(* productmd/version.py: the version of a parsed document.  The document is *)
(* a dict, as a function from its keys; the values inside it are tagged.    *)

PyDict(f) == [t |-> "dict", v |-> f]

IsDict(x) == x.t = "dict"
HasField(x, k) == k \in DOMAIN x.v

\* the loop over payload["rpms"]: variant, arch, srpm, rpm
RpmsHasLocation(rpms) ==
    \E variant \in DOMAIN rpms.v : IsDict(rpms.v[variant]) /\
      \E arch \in DOMAIN rpms.v[variant].v : IsDict(rpms.v[variant].v[arch]) /\
        \E srpm \in DOMAIN rpms.v[variant].v[arch].v : IsDict(rpms.v[variant].v[arch].v[srpm]) /\
          \E rpm \in DOMAIN rpms.v[variant].v[arch].v[srpm].v :
              /\ IsDict(rpms.v[variant].v[arch].v[srpm].v[rpm])
              /\ HasField(rpms.v[variant].v[arch].v[srpm].v[rpm], "location")

\* the loops over payload["images"] and payload["extra_files"]: variant,
\* arch, item of the list
ListsHaveLocation(section) ==
    \E variant \in DOMAIN section.v : IsDict(section.v[variant]) /\
      \E arch \in DOMAIN section.v[variant].v : section.v[variant].v[arch].t = "list" /\
        \E i \in 1..Len(section.v[variant].v[arch].v) :
            /\ IsDict(section.v[variant].v[arch].v[i])
            /\ HasField(section.v[variant].v[arch].v[i], "location")

\* the loop over payload["variants"]: variant, path type, arch; "paths" is
\* a dict wherever it is present
VariantsHaveUrl(variants) ==
    \E variant \in DOMAIN variants.v :
      IsDict(variants.v[variant]) /\ HasField(variants.v[variant], "paths") /\
        \E path_type \in DOMAIN variants.v[variant].v["paths"].v :
          IsDict(variants.v[variant].v["paths"].v[path_type]) /\
            \E arch \in DOMAIN variants.v[variant].v["paths"].v[path_type].v :
                /\ IsDict(variants.v[variant].v["paths"].v[path_type].v[arch])
                /\ HasField(variants.v[variant].v["paths"].v[path_type].v[arch], "url")

\* _is_location_object(obj)
_is_location_object(obj) ==
    IsDict(obj) /\ {"url", "size", "checksum", "local_path"} \subseteq DOMAIN obj.v

\* one "if <key> in payload" block of _has_location_in_payload, and the blocks
\* after it; .values() of a section that is not a dict raises AttributeError
SectionThen(payload, key, found, rest) ==
    IF ~HasField(payload, key) THEN rest
    ELSE IF ~IsDict(payload.v[key]) THEN Raise("AttributeError")
    ELSE IF found THEN Ok(PyTrue)
    ELSE rest

\* _has_location_in_payload without its last block, the variant paths
_has_location_in_payload_NoVariants(payload) ==
    SectionThen(payload, "rpms", RpmsHasLocation(payload.v["rpms"]),
    SectionThen(payload, "images", ListsHaveLocation(payload.v["images"]),
    SectionThen(payload, "extra_files", ListsHaveLocation(payload.v["extra_files"]),
    Ok(PyBool(FALSE)))))

\* _has_location_in_payload(payload)
_has_location_in_payload(payload) ==
    SectionThen(payload, "rpms", RpmsHasLocation(payload.v["rpms"]),
    SectionThen(payload, "images", ListsHaveLocation(payload.v["images"]),
    SectionThen(payload, "extra_files", ListsHaveLocation(payload.v["extra_files"]),
    SectionThen(payload, "variants", VariantsHaveUrl(payload.v["variants"]),
    Ok(PyBool(FALSE))))))

\* has_location_objects looking at the rpms section only
has_location_objects_RpmsOnly(d) ==
    IF "payload" \notin DOMAIN d THEN Ok(PyBool(FALSE))
    ELSE SectionThen(d["payload"], "rpms", RpmsHasLocation(d["payload"].v["rpms"]),
         Ok(PyBool(FALSE)))

\* has_location_objects(data)
has_location_objects(d) ==
    IF "payload" \notin DOMAIN d THEN Ok(PyBool(FALSE))
    ELSE _has_location_in_payload(d["payload"])

\* the legacy branch returning CURRENT_VERSION instead of VERSION_1_0
detect_version_from_payload_Current(d) ==
    IF "payload" \notin DOMAIN d
    THEN RaiseMsg("ValueError", "Cannot determine metadata version from data")
    ELSE IF _has_location_in_payload(d["payload"]).status # "ok"
         THEN _has_location_in_payload(d["payload"])
    ELSE IF _has_location_in_payload(d["payload"]).value.v THEN Ok(PyTuple(VERSION_2_0))
    ELSE IF \E k \in {"rpms", "images", "compose"} : HasField(d["payload"], k)
         THEN Ok(PyTuple(VERSION_1_2))
    ELSE RaiseMsg("ValueError", "Cannot determine metadata version from data")

\* a payload of no known shape taken for a legacy one instead of raising
detect_version_from_payload_Guess(d) ==
    IF "payload" \notin DOMAIN d
    THEN RaiseMsg("ValueError", "Cannot determine metadata version from data")
    ELSE IF _has_location_in_payload(d["payload"]).status # "ok"
         THEN _has_location_in_payload(d["payload"])
    ELSE IF _has_location_in_payload(d["payload"]).value.v THEN Ok(PyTuple(VERSION_2_0))
    ELSE Ok(PyTuple(VERSION_1_0))

\* detect_version_from_data, from "if "payload" in data" on
detect_version_from_payload(d) ==
    IF "payload" \notin DOMAIN d
    THEN RaiseMsg("ValueError", "Cannot determine metadata version from data")
    ELSE IF _has_location_in_payload(d["payload"]).status # "ok"
         THEN _has_location_in_payload(d["payload"])
    ELSE IF _has_location_in_payload(d["payload"]).value.v THEN Ok(PyTuple(VERSION_2_0))
    ELSE IF \E k \in {"rpms", "images", "compose"} : HasField(d["payload"], k)
         THEN Ok(PyTuple(VERSION_1_0))
    ELSE RaiseMsg("ValueError", "Cannot determine metadata version from data")

\* detect_version_from_data with the structure of the payload looked at
\* before the header
detect_version_from_data_PayloadFirst(d) ==
    IF detect_version_from_payload(d).status = "ok" THEN detect_version_from_payload(d)
    ELSE IF "header" \in DOMAIN d /\ HasField(d["header"], "version")
         THEN string_to_version(d["header"].v["version"])
    ELSE detect_version_from_payload(d)

\* detect_version_from_data(data)
detect_version_from_data(d) ==
    IF "header" \in DOMAIN d /\ HasField(d["header"], "version")
    THEN string_to_version(d["header"].v["version"])
    ELSE detect_version_from_payload(d)

(* Documents: a header with or without a version tag, and a payload whose   *)
(* sections are in the legacy form, hold location objects, or are missing.  *)

Dict1(k, x) == [j \in {k} |-> x]

LocationObject ==
    PyDict([k \in {"url", "size", "checksum", "local_path"} |->
              CASE k = "url" -> PyStr(HTTPS_PREFIX \o <<"x">>)
                [] k = "size" -> PyInt(5)
                [] k = "checksum" -> GoodChecksum
                [] k = "local_path" -> PyStr(<<"p">>)])

LegacyEntry ==
    PyDict([k \in {"path", "checksums"} |->
              IF k = "path" THEN PyStr(<<"p">>) ELSE PyDict(Dict1("sha256", PyStr(HEX64)))])

Located(x) == PyDict(Dict1("location", x))

\* payload["rpms"]: variant, arch, srpm, rpm
RpmsOption(n) ==
    LET rpms(entry) ==
            PyDict(Dict1("Server", PyDict(Dict1("x86_64", PyDict(Dict1("srpm",
                   PyDict(Dict1("rpm", entry))))))))
    IN  CASE n = 1 -> rpms(LegacyEntry)
          [] n = 2 -> rpms(Located(LocationObject))
          [] n = 3 -> rpms(Located(PyNone))
          [] n = 4 -> PyList(<<>>)

\* payload["images"] and payload["extra_files"]: variant, arch, list
ListsOption(n) ==
    LET lists(entry) == PyDict(Dict1("Server", PyDict(Dict1("x86_64", PyList(<<entry>>)))))
    IN  CASE n = 1 -> lists(LegacyEntry)
          [] n = 2 -> lists(Located(LocationObject))

\* payload["variants"]: variant, "paths", path type, arch
VariantsOption(n) ==
    LET variants(path) ==
            PyDict(Dict1("Server", PyDict(Dict1("paths", PyDict(Dict1("os_tree",
                   PyDict(Dict1("x86_64", path))))))))
    IN  CASE n = 1 -> variants(PyStr(<<"p">>))
          [] n = 2 -> variants(LocationObject)
          [] n = 3 -> variants(PyDict(Dict1("url", PyStr(HTTPS_PREFIX \o <<"x">>))))

Payload(r, i, e, v, c) ==
    PyDict([k \in { j \in {"rpms", "images", "extra_files", "variants", "compose"} :
                      \/ j = "rpms" /\ r > 0
                      \/ j = "images" /\ i > 0
                      \/ j = "extra_files" /\ e > 0
                      \/ j = "variants" /\ v > 0
                      \/ j = "compose" /\ c > 0 } |->
              CASE k = "rpms" -> RpmsOption(r)
                [] k = "images" -> ListsOption(i)
                [] k = "extra_files" -> ListsOption(e)
                [] k = "variants" -> VariantsOption(v)
                [] k = "compose" -> PyDict(EmptyDict)])

VersionTag(n) ==
    CASE n = 1 -> PyStr(version_to_string(VERSION_1_0))
      [] n = 2 -> PyStr(version_to_string(VERSION_1_1))
      [] n = 3 -> PyStr(version_to_string(VERSION_1_2))
      [] n = 4 -> PyStr(version_to_string(VERSION_2_0))
      [] n = 5 -> PyStr(<<"x">>)
      [] n = 6 -> PyInt(2)

Header(h, tag) == IF h = 1 THEN PyDict(EmptyDict) ELSE PyDict(Dict1("version", VersionTag(tag)))

Document(h, tag, p, r, i, e, v, c) ==
    [k \in { j \in {"header", "payload"} : (j = "header" /\ h > 0) \/ (j = "payload" /\ p > 0) } |->
       IF k = "header" THEN Header(h, tag) ELSE Payload(r, i, e, v, c)]

InitDetect ==
    /\ \E h \in 0..2, tag \in 1..6, p \in 0..1, r \in 0..4, i \in 0..2, e \in 0..2,
          v \in 0..3, c \in 0..1 :
          data = Document(h, tag, p, r, i, e, v, c)
    /\ loc = Location(PyNone, PyNone, PyNone, PyNone, PyNone)
    /\ res = Result("init", PyNone, Ok(PyNone))
    /\ FileIdle /\ DeriveIdle /\ ver = PyNone

\* detect_version_from_data(data)
DetectVersion ==
    /\ res' = Result("detect_version_from_data", PyNone, detect_version_from_data(data))
    /\ UNCHANGED <<loc, data, fileVars, deriveVars, ver>>

\* has_location_objects(data)
HasLocationObjects ==
    /\ res' = Result("has_location_objects", PyNone, has_location_objects(data))
    /\ UNCHANGED <<loc, data, fileVars, deriveVars, ver>>

NextDetect ==
    \/ DetectVersion
    \/ HasLocationObjects

SpecDetect == InitDetect /\ [][NextDetect]_vars

----------------------------------------------------------------------------
(* productmd/version.py: VersionedMetadataMixin.  heap holds the instances, *)
(* each the dict of its own attributes, empty after construction; data is   *)
(* the namespace the instances share: the attribute _output_version of the  *)
(* class and the global CURRENT_VERSION of the module.  ver is a history    *)
(* variable: for each instance, the argument of the last assignment to      *)
(* output_version that did not raise, None if there was none.               *)

MaxInstances == 2

\* the class attribute "_output_version = None" and the module's global
Namespace ==
    [k \in {"_output_version", "CURRENT_VERSION"} |->
        IF k = "_output_version" THEN PyNone ELSE PyTuple(CURRENT_VERSION)]

\* self._output_version: the attribute of the instance, else of the class
self_output_version(self, namespace) ==
    IF "_output_version" \in DOMAIN self THEN self["_output_version"]
    ELSE namespace["_output_version"]

\* the getter of the property output_version
output_version(self, namespace) ==
    IF self_output_version(self, namespace) # PyNone THEN self_output_version(self, namespace)
    ELSE namespace["CURRENT_VERSION"]

\* obj with its attribute name set to value
setattr(obj, name, value) ==
    [k \in DOMAIN obj \cup {name} |-> IF k = name THEN value ELSE obj[k]]

\* the setter storing its argument as it is given
output_version_setter_Raw(objs, namespace, self, version) ==
    [objs |-> [objs EXCEPT ![self] = setattr(@, "_output_version", version)],
     namespace |-> namespace]

\* the setter storing the version on the class
output_version_setter_OnClass(objs, namespace, self, version) ==
    IF get_version_tuple(version).status # "ok" THEN [objs |-> objs, namespace |-> namespace]
    ELSE [objs |-> objs,
          namespace |-> setattr(namespace, "_output_version", get_version_tuple(version).value)]

\* the setter of the property output_version: the instances and the
\* namespace after "self._output_version = get_version_tuple(version)"
output_version_setter(objs, namespace, self, version) ==
    IF get_version_tuple(version).status # "ok" THEN [objs |-> objs, namespace |-> namespace]
    ELSE [objs |-> [objs EXCEPT ![self] =
                      setattr(@, "_output_version", get_version_tuple(version).value)],
          namespace |-> namespace]

\* should_use_locations(self)
should_use_locations(self, namespace) ==
    supports_location_objects(output_version(self, namespace))

\* the versions assigned: strings, tuples, a list, an invalid string, None
AssignedVersions(n) ==
    CASE n = 1 -> PyStr(<<"1", ".", "2">>)
      [] n = 2 -> PyStr(<<"2", ".", "0">>)
      [] n = 3 -> PyTuple(VERSION_1_1)
      [] n = 4 -> PyTuple(<<3, 0>>)
      [] n = 5 -> PyList(<<2, 0>>)
      [] n = 6 -> PyStr(<<"x">>)
      [] n = 7 -> PyNone

\* the state after constructing the instances
InitMixin ==
    /\ \E n \in 1..MaxInstances :
          /\ heap = [i \in 1..n |-> EmptyDict]
          /\ ver = [i \in 1..n |-> PyNone]
    /\ data = Namespace
    /\ derived = PyNone
    /\ loc = Location(PyNone, PyNone, PyNone, PyNone, PyNone)
    /\ res = Result("init", PyNone, Ok(PyNone))
    /\ FileIdle

\* heap[self].output_version = version
SetOutputVersion ==
    \E self \in 1..Len(heap), n \in 1..7 :
        /\ heap' = output_version_setter(heap, data, self, AssignedVersions(n)).objs
        /\ data' = output_version_setter(heap, data, self, AssignedVersions(n)).namespace
        /\ ver' = IF get_version_tuple(AssignedVersions(n)).status = "ok"
                  THEN [ver EXCEPT ![self] = AssignedVersions(n)]
                  ELSE ver
        /\ res' = Result("output_version.setter", PyInt(self),
                         IF get_version_tuple(AssignedVersions(n)).status = "ok"
                         THEN Ok(PyNone)
                         ELSE get_version_tuple(AssignedVersions(n)))
        /\ UNCHANGED <<loc, fileVars, derived>>

\* heap[self].output_version
GetOutputVersion ==
    \E self \in 1..Len(heap) :
        /\ res' = Result("output_version", PyInt(self), Ok(output_version(heap[self], data)))
        /\ UNCHANGED <<loc, data, fileVars, deriveVars, ver>>

\* heap[self].should_use_locations()
ShouldUseLocations ==
    \E self \in 1..Len(heap) :
        /\ res' = Result("should_use_locations", PyInt(self),
                         should_use_locations(heap[self], data))
        /\ UNCHANGED <<loc, data, fileVars, deriveVars, ver>>

NextMixin ==
    \/ SetOutputVersion
    \/ GetOutputVersion
    \/ ShouldUseLocations

SpecMixin == InitMixin /\ [][NextMixin]_vars

----------------------------------------------------------------------------
(* productmd/location.py: Location.__eq__ and Location.__hash__.  loc is    *)
(* compared with derived, another Location or an object of another class.   *)

ComparedContents ==
    LET f == FileEntry(PyStr(<<"f">>), PyInt(1), GoodChecksum, GoodLayer)
        g == FileEntry(PyStr(<<"g">>), PyInt(0), GoodChecksum, GoodLayer)
    IN  { PyNone, PyList(<<f>>), PyList(<<g>>), PyList(<<f, g>>), PyList(<<g, f>>) }

ComparedLocations ==
    { Location(u, z, GoodChecksum, p, cs) :
        u \in { PyStr(HTTPS_PREFIX \o <<"x">>), PyStr(OCI_BASE \o AT_SHA256 \o HEX64) },
        z \in Sizes, p \in LocalPaths, cs \in ComparedContents }

\* a dict with the attributes of a Location as its keys
LocationDict(l) ==
    [cls |-> "dict", url |-> l.url, size |-> l.size, checksum |-> l.checksum,
     local_path |-> l.local_path, contents |-> l.contents]

InitEq ==
    /\ loc \in ComparedLocations
    /\ \/ derived \in ComparedLocations
       \/ derived = LocationDict(loc)
       \/ derived = FileEntry(loc.local_path, loc.size, loc.checksum, PyNone)
    /\ heap = <<>>
    /\ data = EmptyDict
    /\ ver = PyNone
    /\ res = Result("init", PyNone, Ok(PyNone))
    /\ FileIdle

\* loc == derived
Eq ==
    /\ res' = Result("__eq__", PyNone, Ok(PyBool(Location_eq(loc, derived))))
    /\ UNCHANGED <<loc, data, fileVars, deriveVars, ver>>

\* hash(loc)
Hash ==
    /\ res' = Result("__hash__", PyNone, Ok(PyInt(Location_hash(loc))))
    /\ UNCHANGED <<loc, data, fileVars, deriveVars, ver>>

NextEq ==
    \/ Eq
    \/ Hash

SpecEq == InitEq /\ [][NextEq]_vars

----------------------------------------------------------------------------
(* The grammars as the specification states them: a string belongs to the   *)
(* grammar only as a whole, with nothing before or after it.                *)

\* ^(sha256|sha512|sha1|md5):[a-f0-9]+$
ChecksumGrammar(s) ==
    \E k \in 1..Len(ALGORITHMS) :
        /\ StartsWith(s, ALGORITHMS[k] \o <<":">>)
        /\ Len(s) > Len(ALGORITHMS[k]) + 1
        /\ \A i \in (Len(ALGORITHMS[k]) + 2)..Len(s) : s[i] \in HEX

\* ^oci://[^/]+/[^:@]+(:[^@]+)?@sha256:[a-f0-9]{64}$
OciGrammar(s) ==
    LET at == Len(s) - OCI_DIGEST_LEN - Len(SHA256_COLON)
        r0 == Len(OCI_PREFIX) + 1
        free(from, to, cls) == from <= to /\ \A i \in from..to : s[i] \notin cls
    IN  /\ StartsWith(s, OCI_PREFIX)
        /\ at > r0
        /\ SubSeq(s, at, at + Len(AT_SHA256) - 1) = AT_SHA256
        /\ \A i \in (at + Len(AT_SHA256))..Len(s) : s[i] \in HEX
        /\ \E slash \in (r0 + 1)..(at - 2) :
              /\ s[slash] = "/"
              /\ free(r0, slash - 1, {"/"})
              /\ \/ free(slash + 1, at - 1, {":", "@"})
                 \/ \E colon \in (slash + 2)..(at - 2) :
                       /\ s[colon] = ":"
                       /\ free(slash + 1, colon - 1, {":", "@"})
                       /\ free(colon + 1, at - 1, {"@"})

----------------------------------------------------------------------------
(* Claims about validate().                                                 *)

Validated == res.op = "validate"
Passed == res.out.status = "ok"

\* every check of validate() on loc passes, except possibly the url check
OtherFieldsValid ==
    /\ Location_validate_checksum(loc) = "ok"
    /\ Location_validate_size(loc) = "ok"
    /\ Location_validate_local_path(loc) = "ok"
    /\ \A i \in 1..Len(loc.contents.v) : ValidateEntry(loc.contents.v[i]) = "ok"

\* C1: validate() rejects every url that starts with "oci://" and does not
\* match the full OCI reference grammar; no Location whose url is a malformed
\* OCI reference passes validation.
C1_MalformedOciRejected ==
    (Validated /\ is_oci(loc) /\ ~OciGrammar(loc.url.v)) => ~Passed

\* C2: for every Location whose url starts with "oci://" and contains no
\* "@sha256:" component, validate() fails with an error, whatever the other
\* fields are.
C2_OciWithoutDigestRejected ==
    (Validated /\ is_oci(loc) /\ ~Contains(loc.url.v, AT_SHA256))
        => res.out.status \in {"ValueError", "TypeError"}

\* an OCI url without digest on a Location that is valid otherwise: rejected
C2_Witness ==
    /\ Validated /\ is_oci(loc) /\ ~Contains(loc.url.v, AT_SHA256)
    /\ OtherFieldsValid
    /\ res.out.status = "ValueError"

\* C3: no Location that passes validate() has a url or a local_path that
\* starts with "/": validate() fails when url is absolute, and fails when url
\* is relative or remote but local_path is absolute.
C3_NoAbsolutePathPasses ==
    (Validated /\ Passed) =>
        /\ loc.url.t = "str" /\ ~StartsWith(loc.url.v, <<"/">>)
        /\ loc.local_path.t = "str" /\ ~StartsWith(loc.local_path.v, <<"/">>)

\* a remote url with an absolute local_path, all else valid: rejected
C3_Witness ==
    /\ Validated /\ is_https(loc)
    /\ StartsWith(loc.local_path.v, <<"/">>)
    /\ Location_validate_checksum(loc) = "ok"
    /\ Location_validate_size(loc) = "ok"
    /\ Location_validate_contents(loc) = "ok"
    /\ Location_validate_url(loc) = "ok"
    /\ res.out.status = "ValueError"

\* C4: for every Location that passes validate(), contents is non-empty only
\* if url is an OCI reference: a local, http or https url with at least one
\* FileEntry in contents always fails validation.
C4_ContentsOnlyWithOci ==
    (Validated /\ loc.contents.v # <<>> /\ ~is_oci(loc)) => ~Passed

\* an https url with valid entries in contents, all else valid: rejected
C4_Witness ==
    /\ Validated /\ is_https(loc) /\ loc.contents.v # <<>>
    /\ OtherFieldsValid
    /\ Location_validate_url(loc) = "ok"
    /\ res.out.status = "ValueError"

\* C5: validate() succeeds only if every element of contents is a FileEntry
\* whose file is non-empty and does not start with "/", whose size is a
\* non-negative integer, whose checksum matches the checksum grammar and whose
\* layer_digest starts with "sha256:".
C5_EveryEntryValid ==
    (Validated /\ Passed) =>
        \A i \in 1..Len(loc.contents.v) :
            LET e == loc.contents.v[i]
            IN  /\ e.cls = "FileEntry"
                /\ e.file.t = "str" /\ e.file.v # <<>> /\ ~StartsWith(e.file.v, <<"/">>)
                /\ e.size.t = "int" /\ e.size.v >= 0
                /\ e.checksum.t = "str" /\ ChecksumGrammar(e.checksum.v)
                /\ e.layer_digest.t = "str" /\ StartsWith(e.layer_digest.v, SHA256_COLON)

----------------------------------------------------------------------------
(* Claims about the checksum codec (specification SpecChecksum).            *)

Parsed == res.op = "parse_checksum"

IsHexDigest(d) == d # <<>> /\ \A i \in 1..Len(d) : d[i] \in HEX

\* the digest parse_checksum returns for a checksum field that validate() accepted
AcceptedDigestIsHex(c) ==
    /\ parse_checksum(c.v).status = "ok"
    /\ \E k \in 1..Len(ALGORITHMS) : parse_checksum(c.v).value[1] = ALGORITHMS[k]
    /\ IsHexDigest(parse_checksum(c.v).value[2])

\* C6 (as stated): every checksum accepted by parse_checksum has a digest whose
\* length is the output length of its algorithm: 64 hex characters for sha256,
\* 128 for sha512, 40 for sha1, 32 for md5.
C6_DigestLengthMatchesAlgorithm ==
    (Parsed /\ Passed) =>
        LET algo == res.out.value[1]
            digest == res.out.value[2]
        IN  Len(digest) = CASE algo = ALGORITHMS[1] -> 64
                            [] algo = ALGORITHMS[2] -> 128
                            [] algo = ALGORITHMS[3] -> 40
                            [] algo = ALGORITHMS[4] -> 32

\* C6 (amended): every checksum accepted by parse_checksum and by Location and
\* FileEntry validation has one of the four algorithm names and a digest of one
\* or more characters of [a-f0-9]; the length of the digest is not compared with
\* the algorithm's output length, and every string made of a recognized
\* algorithm, ":" and a non-empty lowercase hex digest of any length is accepted.
C6_AcceptedDigestIsHex ==
    /\ (Parsed /\ Passed) =>
          /\ \E k \in 1..Len(ALGORITHMS) : res.out.value[1] = ALGORITHMS[k]
          /\ IsHexDigest(res.out.value[2])
    /\ (Parsed /\ ChecksumGrammar(res.arg.v)) => Passed
    /\ (Validated /\ Passed) =>
          /\ AcceptedDigestIsHex(loc.checksum)
          /\ \A i \in 1..Len(loc.contents.v) : AcceptedDigestIsHex(loc.contents.v[i].checksum)

\* a sha256 checksum with a two-character digest is parsed
C6_Witness ==
    /\ Parsed /\ Passed
    /\ res.out.value = <<ALGORITHMS[1], <<"a","a">> >>

\* C7: parse_checksum(s) returns (algorithm, digest) exactly when the whole
\* string s is one of sha256, sha512, sha1, md5, a single ":" and one or more
\* characters of [a-f0-9]; for every other string (leading or trailing
\* whitespace, a trailing newline, an uppercase digit, an unknown algorithm, an
\* empty digest) it fails with a format error.
C7_ParseExactlyGrammar ==
    Parsed =>
        /\ Passed <=> ChecksumGrammar(res.arg.v)
        /\ Passed => res.out.value[1] \o <<":">> \o res.out.value[2] = res.arg.v
        /\ ~Passed => res.out.status = "ValueError"

----------------------------------------------------------------------------
(* Claims about serialization and classification.                           *)

\* C8: for every Location L that passes validate(), from_dict(L.serialize())
\* equals L in url, size, checksum and local_path, and its contents has the
\* same length and the same FileEntry values in the same order.
C8_RoundTrip ==
    (/\ res.op = "from_dict"
     /\ Location_validate(loc) = "ok"
     /\ data = Location_serialize(loc).value) =>
        /\ Passed
        /\ res.out.value.url = loc.url
        /\ res.out.value.size = loc.size
        /\ res.out.value.checksum = loc.checksum
        /\ res.out.value.local_path = loc.local_path
        /\ Len(res.out.value.contents.v) = Len(loc.contents.v)
        /\ \A i \in 1..Len(loc.contents.v) :
              FileEntry_eq(res.out.value.contents.v[i], loc.contents.v[i])

\* a Location with two different entries has been serialized and read back
C8_Witness ==
    /\ res.op = "from_dict" /\ Passed
    /\ Location_validate(loc) = "ok"
    /\ data = Location_serialize(loc).value
    /\ Len(loc.contents.v) = 2
    /\ loc.contents.v[1] # loc.contents.v[2]

\* C9: the dictionary returned by Location.serialize() has exactly the keys
\* url, size, checksum and local_path when contents is empty, and has the key
\* contents as well (a list with one serialized FileEntry per element, in
\* order) if and only if contents is non-empty.
C9_SerializedKeys ==
    (res.op = "serialize" /\ Passed) =>
        LET d == res.out.value
            n == Len(loc.contents.v)
        IN  /\ DOMAIN d = {"url", "size", "checksum", "local_path"}
                             \cup (IF n > 0 THEN {"contents"} ELSE {})
            /\ d["url"] = loc.url /\ d["size"] = loc.size
            /\ d["checksum"] = loc.checksum /\ d["local_path"] = loc.local_path
            /\ n > 0 =>
                  /\ d["contents"].t = "list"
                  /\ Len(d["contents"].v) = n
                  /\ \A i \in 1..n :
                        /\ DOMAIN d["contents"].v[i] = {"file", "size", "checksum", "layer_digest"}
                        /\ d["contents"].v[i]["file"] = loc.contents.v[i].file
                        /\ d["contents"].v[i]["size"] = loc.contents.v[i].size
                        /\ d["contents"].v[i]["checksum"] = loc.contents.v[i].checksum
                        /\ d["contents"].v[i]["layer_digest"] = loc.contents.v[i].layer_digest

\* a Location without contents has been serialized
C9_Witness ==
    /\ res.op = "serialize" /\ Passed
    /\ loc.contents.v = <<>>
    /\ DOMAIN res.out.value = {"url", "size", "checksum", "local_path"}

\* C10: for every url (including empty or unset) at most one of is_https,
\* is_http, is_oci is true, is_remote is true exactly when one of them is,
\* is_local is the negation of is_remote, and a url with none of the prefixes
\* https://, http://, oci:// is classified local.
C10_ClassificationConsistent ==
    res.op = "classify" =>
        LET c == res.out.value
            prefixed(p) == loc.url.t = "str" /\ StartsWith(loc.url.v, p)
        IN  /\ ~(c.is_https /\ c.is_http) /\ ~(c.is_https /\ c.is_oci) /\ ~(c.is_http /\ c.is_oci)
            /\ c.is_remote <=> (c.is_https \/ c.is_http \/ c.is_oci)
            /\ c.is_local <=> ~c.is_remote
            /\ (~prefixed(HTTPS_PREFIX) /\ ~prefixed(HTTP_PREFIX) /\ ~prefixed(OCI_PREFIX))
                  => c.is_local

\* an http url has been classified: remote, http only
C10_Witness ==
    /\ res.op = "classify"
    /\ loc.url = PyStr(HTTP_PREFIX \o <<"x">>)
    /\ res.out.value.is_remote /\ res.out.value.is_http
    /\ ~res.out.value.is_https /\ ~res.out.value.is_oci /\ ~res.out.value.is_local

\* C11: for a url matching the OCI grammar, oci_registry, oci_repository,
\* oci_tag and oci_digest return the registry (the text up to the first "/"),
\* the repository, the tag (None when the reference has none) and the
\* "sha256:<64 hex>" digest; for a url that is not OCI, or that starts with
\* "oci://" and does not match the grammar, all four return None.
C11_OciProperties ==
    res.op = "oci" =>
        LET v == res.out.value
            u == loc.url.v
            free(x, cls) == x.t = "str" /\ x.v # <<>> /\ \A i \in 1..Len(x.v) : x.v[i] \notin cls
        IN  IF loc.url.t = "str" /\ OciGrammar(u)
            THEN /\ Passed
                 /\ free(v.registry, {"/"})
                 /\ free(v.repository, {":", "@"})
                 /\ v.tag # PyNone => free(v.tag, {"@"})
                 /\ v.digest = PyStr(SubSeq(u, Len(u) - OCI_DIGEST_LEN - Len(SHA256_COLON) + 1, Len(u)))
                 /\ u = OCI_PREFIX \o v.registry.v \o <<"/">> \o v.repository.v
                          \o (IF v.tag = PyNone THEN <<>> ELSE <<":">> \o v.tag.v)
                          \o <<"@">> \o v.digest.v
            ELSE /\ Passed
                 /\ v.registry = PyNone /\ v.repository = PyNone
                 /\ v.tag = PyNone /\ v.digest = PyNone

----------------------------------------------------------------------------
(* Claims about the file operations (specification SpecFile).               *)

Done(op) == call.op = op /\ pc = "idle"
OnDisk(path) == path \in DOMAIN fs
SizeMatches(path) == OnDisk(path) /\ PyInt(RunsLen(fs[path])) = loc.size
Hashing == pc = "read" \/ hasher # PyNone \/ blocks # <<>>

\* C12: verify(path) checks the size before the checksum: the file is hashed
\* only when its size is the recorded size; a file of another size makes
\* verify fail with the size mismatch error, nothing hashed; and verify
\* returns success only when the size and the checksum of the file are the
\* recorded ones
C12_VerifySizeThenChecksum ==
    /\ (call.op = "verify" /\ Hashing) => SizeMatches(call.path)
    /\ (Done("verify") /\ OnDisk(call.path) /\ ~SizeMatches(call.path))
          => /\ res.out = RaiseMsg("ValueError", "Size mismatch")
             /\ ~Hashing
    /\ (Done("verify") /\ Passed)
          => /\ SizeMatches(call.path)
             /\ \E name \in HashlibNames : loc.checksum = ChecksumOf(name, fs[call.path])

C12_Witness ==
    /\ Done("verify") /\ OnDisk(call.path) /\ ~SizeMatches(call.path)
    /\ res.out = RaiseMsg("ValueError", "Size mismatch")

RECURSIVE Sum(_)
Sum(q) == IF q = <<>> THEN 0 ELSE Head(q) + Sum(Tail(q))

\* what compute_checksum has read and hashed so far is the file's first pos
\* bytes, in blocks of 1 to BLOCK_SIZE bytes, each fed once and in file order
BlocksInOrder ==
    pc = "read" \/ (pc = "idle" /\ hasher # PyNone) =>
        /\ \A i \in 1..Len(blocks) : blocks[i] >= 1 /\ blocks[i] <= BLOCK_SIZE
        /\ pos = Sum(blocks)
        /\ hasher.fed = RunsSlice(fs[call.file], 0, pos)

\* compute_checksum returns at the end of the file, with the algorithm's name,
\* a colon and the lowercase hex digest of the whole content
WholeFileDigest ==
    Done("compute_checksum") /\ Passed =>
        /\ pos = RunsLen(fs[call.file])
        /\ hasher.fed = fs[call.file]
        /\ res.out.value = PyStr(call.arg.v \o <<":">> \o hexdigest([name |-> call.arg.v, fed |-> fs[call.file]]))
        /\ \A i \in 1..Len(hexdigest(hasher)) : hexdigest(hasher)[i] \in HEX

\* C13: compute_checksum reads the file in blocks of at most 1 MiB, feeds
\* each block to the hash once and in file order, stops at the first empty
\* read, so that every call that has opened its file ends, and returns
\* "<algorithm>:<lowercase hex digest>" of the whole content, a function of
\* the content and the algorithm alone
C13_ComputeChecksum ==
    /\ [](BlocksInOrder /\ WholeFileDigest)
    /\ (pc = "read") ~> (pc = "idle")

C13_Witness ==
    /\ Done("compute_checksum") /\ Passed
    /\ Len(blocks) >= 3
    /\ res.out.value = ChecksumOf(call.arg.v, fs[call.file])

\* C14: compute_checksum fails for every algorithm name other than sha256,
\* sha512, sha1 and md5, and so returns no checksum string that
\* parse_checksum rejects
C14_UnsupportedAlgorithmRejected ==
    Done("compute_checksum") =>
        /\ call.arg \notin { PyStr(ALGORITHMS[i]) : i \in 1..Len(ALGORITHMS) } => ~Passed
        /\ Passed => parse_checksum(res.out.value.v).status = "ok"

\* the file path under the directory base_dir
UnderDir(base_dir, path) ==
    (IF base_dir[Len(base_dir)] = "/" THEN SubSeq(base_dir, 1, Len(base_dir) - 1) ELSE base_dir)
    \o <<"/">> \o path

\* C15: from_local_file(path, base_dir, compute_integrity) returns a Location
\* of url and local_path path and of no contents; with compute_integrity its
\* size and checksum are the size and the sha256 checksum of the file
\* base_dir/path, and without it they are 0 and "sha256:" and 64 zeros, no
\* file being read
C15_FromLocalFile ==
    Done("from_local_file") /\ Passed =>
        LET v == res.out.value
            file == UnderDir(call.arg.base_dir, call.path)
        IN  /\ v.url = PyStr(call.path)
            /\ v.local_path = PyStr(call.path)
            /\ v.contents = PyList(<<>>)
            /\ IF call.arg.compute_integrity
               THEN /\ OnDisk(file)
                    /\ v.size = PyInt(RunsLen(fs[file]))
                    /\ v.checksum = ChecksumOf(<<"s","h","a","2","5","6">>, fs[file])
               ELSE /\ v.size = PyInt(0)
                    /\ v.checksum = PyStr(<<"s","h","a","2","5","6",":">> \o Rep("0", 64))
                    /\ ~Hashing

C15_Witness ==
    /\ Done("from_local_file") /\ Passed
    /\ call.arg.compute_integrity
    /\ Len(blocks) >= 2
    /\ loc.size = PyInt(Sum(blocks))

----------------------------------------------------------------------------
(* Claims about with_remote_url (specification SpecDerive).                 *)

\* the value of a Location: its fields and the values of its entries
DeepValue(l, h) ==
    [l EXCEPT !.contents = PyList([i \in 1..Len(Items(l, h)) |-> h[Items(l, h)[i]]])]

\* a step that is a call of with_remote_url that returns
Derives == derived = PyNone /\ derived' # PyNone

\* the fields other than url are those of loc, the new Location is another
\* object than loc, and loc is as it was
CopiesTheRest ==
    /\ derived'.size = loc.size
    /\ derived'.checksum = loc.checksum
    /\ derived'.local_path = loc.local_path
    /\ DeepValue(derived', heap').contents = DeepValue(loc, heap).contents
    /\ derived'.contents # loc.contents
    /\ loc' = loc
    /\ DeepValue(loc', heap') = DeepValue(loc, heap)

\* s without its last character when that is a slash
StripOneSlash(s) == IF s # <<>> /\ s[Len(s)] = "/" THEN SubSeq(s, 1, Len(s) - 1) ELSE s

\* C16, as stated: L.with_remote_url(base_url) returns a new Location whose
\* url is base_url with its trailing slash stripped, a "/" and L.local_path,
\* and whose other fields equal those of L, which the call leaves unchanged
C16_TrailingSlashStripped ==
    [][Derives /\ loc.local_path.t = "str" =>
          /\ derived'.url = PyStr(StripOneSlash(res'.arg.v) \o <<"/">> \o loc.local_path.v)
          /\ CopiesTheRest]_vars

\* C16, amended: the url is base_url with all its trailing slashes stripped,
\* a "/" and L.local_path (the text None for a local_path of None); the other
\* fields equal those of L, which the call leaves unchanged
C16_AllTrailingSlashesStripped ==
    [][Derives =>
          /\ \E k \in 0..Len(res'.arg.v) :
                /\ k > 0 => res'.arg.v[k] # "/"
                /\ \A i \in (k + 1)..Len(res'.arg.v) : res'.arg.v[i] = "/"
                /\ derived'.url = PyStr(SubSeq(res'.arg.v, 1, k) \o <<"/">>
                                        \o (IF loc.local_path = PyNone THEN <<"N","o","n","e">>
                                            ELSE loc.local_path.v))
          /\ CopiesTheRest]_vars

C16_Witness ==
    /\ res.op = "with_remote_url" /\ Passed
    /\ res.arg = PyStr(HTTPS_PREFIX \o <<"x","/","/">>)
    /\ derived.url = PyStr(HTTPS_PREFIX \o <<"x","/","p">>)
    /\ Len(Items(derived, heap)) = 2

\* C17: after with_remote_url, no mutation of the derived Location (an entry
\* appended or removed, a field of an entry changed) changes the contents of
\* the original or the value of one of its entries, and no mutation of the
\* original changes the derived Location
C17_NothingShared ==
    [][derived # PyNone /\ derived' # PyNone /\ res'.op \in {"append", "remove", "set"} =>
          /\ res'.arg.v = "derived" => DeepValue(loc', heap') = DeepValue(loc, heap)
          /\ res'.arg.v = "loc" => DeepValue(derived', heap') = DeepValue(derived, heap)]_vars

----------------------------------------------------------------------------
(* Claims about versions (specification SpecVersion).                       *)

\* c is the text of an integer: digits, single underscores between them
\* allowed, after an optional sign, with optional white space around it
IsIntegerText(c) ==
    \E i \in 1..Len(c) : \E j \in i..Len(c) :
        /\ \A k \in 1..(i - 1) : c[k] \in {" ", "\t", "\n", "\r"}
        /\ \A k \in (j + 1)..Len(c) : c[k] \in {" ", "\t", "\n", "\r"}
        /\ LET first == IF c[i] \in {"+", "-"} THEN i + 1 ELSE i
               digit(x) == x \in {"0","1","2","3","4","5","6","7","8","9"}
           IN  /\ first <= j
               /\ digit(c[first]) /\ digit(c[j])
               /\ \A k \in first..j : digit(c[k]) \/ (c[k] = "_" /\ c[k + 1] # "_")

\* the number of the components of s, between its dots, that are integers
IntegerComponents(s) ==
    LET ends == {0, Len(s) + 1} \cup { i \in 1..Len(s) : s[i] = "." }
        next(b) == CHOOSE e \in ends : e > b /\ \A x \in ends : x > b => x >= e
    IN  Cardinality({ b \in ends \ {Len(s) + 1} : IsIntegerText(SubSeq(s, b + 1, next(b) - 1)) })

\* C18: string_to_version(version_to_string((major, minor))) is (major, minor)
\* for every tuple of non-negative integers, and string_to_version fails with
\* ValueError for every string with fewer than two dot-separated integer
\* components
C18_VersionRoundTrip ==
    /\ res.op = "round_trip" =>
          /\ ver.v[1] >= 0 /\ ver.v[2] >= 0
          /\ res.out = Ok(ver)
    /\ (res.op = "string_to_version" /\ IntegerComponents(ver.v) < 2) =>
          res.out.status = "ValueError"

C18_Witness ==
    /\ res.op = "string_to_version"
    /\ ver = PyStr(<<"1", ".">>)
    /\ res.out.status = "ValueError"

\* C19: for a version (major, minor) of non-negative integers, as a tuple or
\* as its string, is_distributed, supports_location_objects and is_v2 equal
\* version >= (2, 0) in lexicographic order, and is_v1 equals major = 1
C19_VersionPredicates ==
    res.op = "predicates" =>
        \A major, minor \in 0..MaxVersion :
            (\/ ver.t = "tuple" /\ ver.v = <<major, minor>>
             \/ ver.t = "str" /\ ver.v = version_to_string(<<major, minor>>))
            => /\ Passed
               /\ res.out.value.is_distributed = (major > 2 \/ (major = 2 /\ minor >= 0))
               /\ res.out.value.supports_location_objects = (major > 2 \/ (major = 2 /\ minor >= 0))
               /\ res.out.value.is_v2 = (major > 2 \/ (major = 2 /\ minor >= 0))
               /\ res.out.value.is_v1 = (major = 1)

C19_Witness ==
    /\ res.op = "predicates" /\ Passed
    /\ ver.t = "str" /\ ver.v = <<"2", ".", "0">>
    /\ res.out.value.supports_location_objects /\ res.out.value.is_distributed
    /\ res.out.value.is_v2 /\ ~res.out.value.is_v1

----------------------------------------------------------------------------
(* Claims about version detection (specification SpecDetect).               *)

Detected == res.op = "detect_version_from_data"
HasVersionTag == "header" \in DOMAIN data /\ "version" \in DOMAIN data["header"].v
TagIs(s) == HasVersionTag /\ data["header"].v["version"] = PyStr(s)

\* C20: for a document that has header.version, detect_version_from_data
\* returns the parse of that tag whatever the payload holds: the tags 1.0,
\* 1.1, 1.2 and 2.0 give (1, 0), (1, 1), (1, 2) and (2, 0), with location
\* objects in the payload or without, and a tag that does not parse gives the
\* error of its parse
C20_HeaderVersionWins ==
    (Detected /\ HasVersionTag) =>
        /\ res.out = string_to_version(data["header"].v["version"])
        /\ TagIs(<<"1", ".", "0">>) => res.out = Ok(PyTuple(<<1, 0>>))
        /\ TagIs(<<"1", ".", "1">>) => res.out = Ok(PyTuple(<<1, 1>>))
        /\ TagIs(<<"1", ".", "2">>) => res.out = Ok(PyTuple(<<1, 2>>))
        /\ TagIs(<<"2", ".", "0">>) => res.out = Ok(PyTuple(<<2, 0>>))

C20_Witness ==
    /\ Detected /\ TagIs(<<"1", ".", "2">>)
    /\ "payload" \in DOMAIN data
    /\ has_location_objects(data) = Ok(PyTrue)
    /\ res.out = Ok(PyTuple(<<1, 2>>))

NoHeaderVersion == Detected /\ ~HasVersionTag
HasPayload == "payload" \in DOMAIN data
Section(k) == data["payload"].v[k]
HasSection(k) == HasPayload /\ k \in DOMAIN data["payload"].v

\* the sections of the payload that the detector walks are mappings
SectionsAreMappings ==
    \A k \in {"rpms", "images", "extra_files", "variants"} : HasSection(k) => Section(k).t = "dict"

\* an rpms, images or extra_files entry with a "location" field, or a variant
\* path descriptor with a "url" field
HasLocationMarker ==
    \/ HasSection("rpms") /\ RpmsHasLocation(Section("rpms"))
    \/ HasSection("images") /\ ListsHaveLocation(Section("images"))
    \/ HasSection("extra_files") /\ ListsHaveLocation(Section("extra_files"))
    \/ HasSection("variants") /\ VariantsHaveUrl(Section("variants"))

HasLegacyKey == \E k \in {"rpms", "images", "compose"} : HasSection(k)

IndeterminateVersion == RaiseMsg("ValueError", "Cannot determine metadata version from data")

C28_DetectionAgreesWithHasLocationObjects ==
    (NoHeaderVersion /\ res.out.status = "ok") =>
        /\ res.out \in {Ok(PyTuple(<<1, 0>>)), Ok(PyTuple(<<2, 0>>))}
        /\ res.out = Ok(PyTuple(<<2, 0>>)) <=> has_location_objects(data) = Ok(PyBool(TRUE))

C28_Witness ==
    /\ NoHeaderVersion /\ HasSection("images") /\ HasSection("compose")
    /\ res.out = Ok(PyTuple(<<2, 0>>))
    /\ has_location_objects(data) = Ok(PyBool(TRUE))

\* an entry of a list section whose "location" field is a Location object
ListsHoldLocationObject(section) ==
    \E variant \in DOMAIN section.v : IsDict(section.v[variant]) /\
      \E arch \in DOMAIN section.v[variant].v : section.v[variant].v[arch].t = "list" /\
        \E i \in 1..Len(section.v[variant].v[arch].v) :
            /\ IsDict(section.v[variant].v[arch].v[i])
            /\ HasField(section.v[variant].v[arch].v[i], "location")
            /\ _is_location_object(section.v[variant].v[arch].v[i].v["location"])

\* an rpm whose "location" field is a Location object
RpmsHoldLocationObject(rpms) ==
    \E variant \in DOMAIN rpms.v : IsDict(rpms.v[variant]) /\
      \E arch \in DOMAIN rpms.v[variant].v : IsDict(rpms.v[variant].v[arch]) /\
        \E srpm \in DOMAIN rpms.v[variant].v[arch].v : IsDict(rpms.v[variant].v[arch].v[srpm]) /\
          \E rpm \in DOMAIN rpms.v[variant].v[arch].v[srpm].v :
              /\ IsDict(rpms.v[variant].v[arch].v[srpm].v[rpm])
              /\ HasField(rpms.v[variant].v[arch].v[srpm].v[rpm], "location")
              /\ _is_location_object(rpms.v[variant].v[arch].v[srpm].v[rpm].v["location"])

\* a variant path descriptor that is a Location object
VariantsHoldLocationObject(variants) ==
    \E variant \in DOMAIN variants.v :
      IsDict(variants.v[variant]) /\ HasField(variants.v[variant], "paths") /\
        \E path_type \in DOMAIN variants.v[variant].v["paths"].v :
          IsDict(variants.v[variant].v["paths"].v[path_type]) /\
            \E arch \in DOMAIN variants.v[variant].v["paths"].v[path_type].v :
                _is_location_object(variants.v[variant].v["paths"].v[path_type].v[arch])

HoldsLocationObject ==
    /\ HasPayload /\ SectionsAreMappings
    /\ \/ HasSection("rpms") /\ RpmsHoldLocationObject(Section("rpms"))
       \/ HasSection("images") /\ ListsHoldLocationObject(Section("images"))
       \/ HasSection("extra_files") /\ ListsHoldLocationObject(Section("extra_files"))
       \/ HasSection("variants") /\ VariantsHoldLocationObject(Section("variants"))

\* C25: has_location_objects reports a Location object, and a document
\* without header.version detects as (2, 0), only when some entry holds a
\* dict with url, size, checksum and local_path together; a "location" field
\* that is null or a path descriptor with only "url" is not counted
C25_OnlyWholeLocationObjectsCount ==
    /\ (res.op = "has_location_objects" /\ res.out = Ok(PyBool(TRUE))) => HoldsLocationObject
    /\ (NoHeaderVersion /\ res.out = Ok(PyTuple(<<2, 0>>))) => HoldsLocationObject

----------------------------------------------------------------------------
(* Claims about VersionedMetadataMixin (specification SpecMixin).           *)

\* the tuple a version is normalised to: "1.2" is (1, 2), a tuple or a list
\* is the tuple of its items
Normalised(version) ==
    IF version.t = "str"
    THEN PyTuple(CHOOSE t \in (0..9) \X (0..9) :
                    version.v = <<DIGITS[t[1] + 1], ".", DIGITS[t[2] + 1]>>)
    ELSE PyTuple(version.v)

\* what reading output_version of an instance is to return
MostRecentlyAssigned(self) ==
    IF ver[self] = PyNone THEN PyTuple(<<1, 2>>) ELSE Normalised(ver[self])

AtLeast2_0(t) == t.v[1] > 2 \/ (t.v[1] = 2 /\ t.v[2] >= 0)

\* C24: reading output_version of an instance returns the version most
\* recently assigned to it, normalised to a tuple, and (1, 2) if none was
\* assigned; should_use_locations() is true exactly when that value is at
\* least (2, 0), so false by default
C24_OutputVersion ==
    \A self \in 1..Len(heap) :
        /\ (res.op = "output_version" /\ res.arg = PyInt(self)) =>
               res.out = Ok(MostRecentlyAssigned(self))
        /\ (res.op = "should_use_locations" /\ res.arg = PyInt(self)) =>
               res.out = Ok(PyBool(AtLeast2_0(MostRecentlyAssigned(self))))

C24_Witness ==
    /\ res.op = "output_version" /\ res.arg = PyInt(1)
    /\ ver[1] = PyStr(<<"2", ".", "0">>)
    /\ res.out = Ok(PyTuple(<<2, 0>>))

\* the step is an assignment to output_version of the instance self
Assigns(self) == res'.op = "output_version.setter" /\ res'.arg = PyInt(self)

\* C30: an assignment to output_version of one instance changes that
\* instance only: what every other instance returns for output_version and
\* should_use_locations(), the _output_version of the class and
\* CURRENT_VERSION are as before, and no other step changes any of them
C30_AssignmentIsLocal ==
    [][ /\ data' = data
        /\ Len(heap') = Len(heap)
        /\ \A other \in 1..Len(heap) :
              ~Assigns(other) =>
                 /\ output_version(heap'[other], data') = output_version(heap[other], data)
                 /\ should_use_locations(heap'[other], data') =
                       should_use_locations(heap[other], data) ]_vars

C30_Witness ==
    /\ Len(heap) = 2
    /\ res.op = "output_version.setter" /\ res.arg = PyInt(1) /\ res.out = Ok(PyNone)
    /\ output_version(heap[1], data) = PyTuple(<<2, 0>>)
    /\ output_version(heap[2], data) = PyTuple(<<1, 2>>)
    /\ should_use_locations(heap[2], data) = Ok(PyBool(FALSE))
    /\ data = Namespace

----------------------------------------------------------------------------
(* Claims about Location equality (specification SpecEq).                   *)

OtherIsLocation == derived.cls = "Location"

SameFour ==
    /\ loc.url = derived.url /\ loc.size = derived.size
    /\ loc.checksum = derived.checksum /\ loc.local_path = derived.local_path

\* C29: a Location equals another object exactly when that is a Location
\* with equal url, size, checksum, local_path and contents, in order; it
\* never equals an object that is not a Location; equal Locations have the
\* same hash, which is computed without contents
C29_LocationEquality ==
    /\ res.op = "__eq__" =>
          res.out = Ok(PyBool(OtherIsLocation /\ SameFour /\ loc.contents = derived.contents))
    /\ (res.op = "__eq__" /\ ~OtherIsLocation) => res.out = Ok(PyBool(FALSE))
    /\ (res.op = "__hash__" /\ OtherIsLocation /\ SameFour) =>
          res.out = Ok(PyInt(Location_hash(derived)))

C29_Witness ==
    /\ res.op = "__eq__" /\ res.out = Ok(PyBool(FALSE))
    /\ OtherIsLocation /\ SameFour
    /\ Len(loc.contents.v) = 2 /\ Len(derived.contents.v) = 2
    /\ Location_hash(loc) = Location_hash(derived)

----------------------------------------------------------------------------
(* A further claim about with_remote_url (specification SpecDerive).        *)

RemoteBase(base_url) ==
    base_url.t = "str" /\ (StartsWith(base_url.v, HTTPS_PREFIX) \/ StartsWith(base_url.v, HTTP_PREFIX))

\* C26: for every Location that passes validate(), an OCI Location with
\* contents included, and every base_url that starts with "https://" or
\* "http://", the Location with_remote_url returns passes validate() too
C26_WithRemoteUrlPreservesValidity ==
    [][(Derives /\ RemoteBase(res'.arg) /\ Location_validate(DeepValue(loc, heap)) = "ok")
          => Location_validate(DeepValue(derived', heap')) = "ok"]_vars

\* with_remote_url on a valid Location without contents gives a valid one
WithRemoteUrlPreservesValidityWithoutContents ==
    [][(Derives /\ RemoteBase(res'.arg) /\ Location_validate(DeepValue(loc, heap)) = "ok"
          /\ Items(loc, heap) = <<>>)
          => Location_validate(DeepValue(derived', heap')) = "ok"]_vars

----------------------------------------------------------------------------
(* A further claim about serialization (specification Spec).                *)

\* validate() passes on l and on every element of its contents
ValidWithContents(l) ==
    /\ Location_validate(l) = "ok"
    /\ \A i \in 1..Len(l.contents.v) :
          l.contents.v[i].cls = "FileEntry" /\ FileEntry_validate(l.contents.v[i]) = "ok"

====
